---------------------------- MODULE Spec2Model ----------------------------
(***************************************************************************)
(* A model of sigpy's iterative-algorithm core: the algorithm classes of   *)
(* sigpy/alg.py (Alg and its seven variants) and the harness classes of    *)
(* sigpy/app.py (App, MaxEig, LinearLeastSquares,                          *)
(* L2ConstrainedMinimization).                                             *)
(*                                                                         *)
(* Python objects are modelled as attribute dictionaries (functions whose  *)
(* DOMAIN is the set of attributes that currently exist), arrays as        *)
(* buffers on a heap that attributes refer to (so aliasing and in-place    *)
(* updates are visible), and numbers in exact arithmetic.                  *)
(***************************************************************************)
EXTENDS Integers, Sequences, FiniteSets, TLC

(***************************************************************************)
(* Numbers.  A number is a record with a kind k:                           *)
(*   "rat"  the rational n/d, d > 0, in lowest terms;                      *)
(*   "irr"  an irrational real whose value is not tracked (never zero);    *)
(*   "unk"  a real whose value is not tracked (nothing known about it);    *)
(*   "inf"  numpy's infinity;   "nan"  numpy's not-a-number.               *)
(***************************************************************************)
AbsInt(i) == IF i < 0 THEN -i ELSE i

RECURSIVE GCD(_, _)
GCD(a, b) == IF b = 0 THEN a ELSE GCD(b, a % b)

Rat(n, d) ==
  LET mk(m, e, g) == [k |-> "rat", n |-> m \div g, d |-> e \div g]
  IN  mk(IF d < 0 THEN -n ELSE n, AbsInt(d), GCD(AbsInt(n), AbsInt(d)))

R(n) == Rat(n, 1)
Irr == [k |-> "irr", n |-> 0, d |-> 1]
Unk == [k |-> "unk", n |-> 0, d |-> 1]
Inf == [k |-> "inf", n |-> 0, d |-> 1]
NaN == [k |-> "nan", n |-> 0, d |-> 1]

IsRat(a) == a.k = "rat"
\* `a == 0` as Python evaluates it: false for nan and for infinity.
IsZero(a) == a.k = "rat" /\ a.n = 0
\* `a > 0`
IsPos(a) == (a.k = "rat" /\ a.n > 0) \/ a.k = "inf"

\* the rationals that are tracked have 15-bit numerators and denominators,
\* so that their sums and products are computed in 32 bits; past that a
\* value is a real that is not tracked
Tracked(a) == AbsInt(a.n) < 32768 /\ a.d < 32768

Add(a, b) ==
  LET sum(g) == Rat(a.n * (b.d \div g) + b.n * (a.d \div g), (a.d \div g) * b.d)
  IN  IF a.k = "nan" \/ b.k = "nan" THEN NaN
      ELSE IF a.k = "rat" /\ b.k = "rat"
           THEN IF Tracked(a) /\ Tracked(b) THEN sum(GCD(a.d, b.d)) ELSE Unk
      ELSE IF a.k = "unk" \/ b.k = "unk" THEN Unk
      ELSE IF a.k = "inf" /\ b.k = "inf" THEN Unk
      ELSE IF a.k = "inf" \/ b.k = "inf" THEN Inf
      ELSE IF a.k = "rat" \/ b.k = "rat" THEN Irr
      ELSE Unk

Mul(a, b) ==
  LET prod(g, h) == Rat((a.n \div g) * (b.n \div h), (a.d \div h) * (b.d \div g))
  IN  IF a.k = "nan" \/ b.k = "nan" THEN NaN
      ELSE IF a.k = "rat" /\ b.k = "rat"
           THEN IF a.n = 0 \/ b.n = 0 THEN R(0)
                ELSE IF Tracked(a) /\ Tracked(b)
                THEN prod(GCD(AbsInt(a.n), b.d), GCD(AbsInt(b.n), a.d))
                ELSE Unk
      ELSE IF IsZero(a) \/ IsZero(b)
           THEN (IF a.k = "inf" \/ b.k = "inf" THEN NaN ELSE R(0))
      ELSE IF a.k = "unk" \/ b.k = "unk" THEN Unk
      ELSE IF a.k = "inf" \/ b.k = "inf" THEN Inf
      ELSE IF a.k = "rat" \/ b.k = "rat" THEN Irr
      ELSE Unk

Neg(a) == Mul(R(-1), a)
Sub(a, b) == Add(a, Neg(b))

\* numpy division: x/0 is inf (nan for 0/0), with a warning and no exception.
Div(a, b) ==
  IF a.k = "nan" \/ b.k = "nan" THEN NaN
  ELSE IF IsZero(b)
       THEN (IF IsZero(a) THEN NaN ELSE IF a.k = "unk" THEN Unk ELSE Inf)
  ELSE IF b.k = "rat" THEN Mul(a, Rat(b.d, b.n))
  ELSE IF b.k = "inf" THEN (IF a.k = "inf" THEN NaN ELSE R(0))
  ELSE IF IsZero(a) THEN R(0)
  ELSE IF b.k = "irr" /\ a.k = "rat" THEN Irr
  ELSE Unk

AbsNum(a) == IF a.k = "rat" THEN Rat(AbsInt(a.n), a.d) ELSE a

RECURSIVE RootIn(_, _, _)
\* the least r in lo..hi with r*r >= n (hi if there is none)
RootIn(n, lo, hi) ==
  LET half(m) == IF m * m >= n THEN RootIn(n, lo, m) ELSE RootIn(n, m + 1, hi)
  IN  IF lo >= hi THEN hi ELSE half((lo + hi) \div 2)
\* integer square roots are looked for among the 32-bit squares
Root(n) == RootIn(n, 0, IF n < 46340 THEN n ELSE 46340)
IsSquare(n) ==
  LET sq(r) == r * r = n
  IN  n >= 0 /\ sq(Root(n))

\* a ** 0.5
Sqrt(a) ==
  IF a.k = "rat"
  THEN IF a.n < 0 THEN NaN
       ELSE IF IsSquare(a.n) /\ IsSquare(a.d)
            THEN Rat(Root(a.n), Root(a.d))
            ELSE Irr
  ELSE IF a.k = "inf" THEN Inf
  ELSE IF a.k = "nan" THEN NaN
  ELSE Unk

(***************************************************************************)
(* Arrays are sequences of numbers, linear operators are matrices          *)
(* (sequences of rows).                                                    *)
(***************************************************************************)
RECURSIVE SumSeq(_)
SumSeq(s) == IF s = <<>> THEN R(0) ELSE Add(Head(s), SumSeq(Tail(s)))

VAdd(u, v) == [i \in 1..Len(u) |-> Add(u[i], v[i])]
VSub(u, v) == [i \in 1..Len(u) |-> Sub(u[i], v[i])]
VScale(a, v) == [i \in 1..Len(v) |-> Mul(a, v[i])]
VDivS(v, a) == [i \in 1..Len(v) |-> Div(v[i], a)]
VMul(u, v) == [i \in 1..Len(u) |-> Mul(u[i], v[i])]
VZero(n) == [i \in 1..n |-> R(0)]
\* util.dot, util.norm2, util.norm on real arrays
Dot(u, v) == SumSeq([i \in 1..Len(u) |-> Mul(u[i], v[i])])
Norm2(v) == Dot(v, v)
Norm(v) == Sqrt(Norm2(v))

MatVec(M, v) == [i \in 1..Len(M) |-> Dot(M[i], v)]
MatT(M) == [j \in 1..Len(M[1]) |-> [i \in 1..Len(M) |-> M[i][j]]]
MatMul(M, N) ==
  [i \in 1..Len(M) |-> [j \in 1..Len(N[1]) |->
      SumSeq([l \in 1..Len(N) |-> Mul(M[i][l], N[l][j])])]]
MatAdd(M, N) == [i \in 1..Len(M) |-> VAdd(M[i], N[i])]
MatScale(a, M) == [i \in 1..Len(M) |-> VScale(a, M[i])]
MatId(n) == [i \in 1..n |-> [j \in 1..n |-> IF i = j THEN R(1) ELSE R(0)]]
MatDiag(w) ==
  [i \in 1..Len(w) |-> [j \in 1..Len(w) |-> IF i = j THEN w[i] ELSE R(0)]]
MatVstack(M, N) == M \o N


(***************************************************************************)
(* Ordering of numbers, used by the proximal operators below.              *)
(***************************************************************************)
Lt(a, b) == a.k = "rat" /\ b.k = "rat" /\ a.n * b.d < b.n * a.d
Leq(a, b) == a.k = "rat" /\ b.k = "rat" /\ a.n * b.d <= b.n * a.d

(***************************************************************************)
(* Python values other than numbers.  Integers and booleans are TLA+       *)
(* integers and booleans; every other value is a record with a kind k.     *)
(***************************************************************************)
None == [k |-> "none"]
Ref(i) == [k |-> "ref", id |-> i]
IsNone(v) == v.k = "none"

\* A linear operator (forward map x |-> M x; its adjoint .H is the transpose).
Linop(M) == [k |-> "linop", M |-> M]
LinopApply(A, v) == MatVec(A.M, v)
LinopH(A) == Linop(MatT(A.M))

\* Proximal operators of the prox package, prox(alpha, v).
ProxNoOp == [k |-> "prox", f |-> "NoOp"]
ProxL2Reg(lamda, y) == [k |-> "prox", f |-> "L2Reg", lamda |-> lamda, y |-> y]
ProxL1Reg(lamda) == [k |-> "prox", f |-> "L1Reg", lamda |-> lamda]
ProxL2Proj(eps, y) == [k |-> "prox", f |-> "L2Proj", eps |-> eps, y |-> y]
ProxConj(p) == [k |-> "prox", f |-> "Conj", inner |-> p]
ProxStack(p1, n1, p2) == [k |-> "prox", f |-> "Stack", p1 |-> p1, n1 |-> n1, p2 |-> p2]

SoftThresh(t, a) ==
  IF a.k # "rat" \/ t.k # "rat" THEN Unk
  ELSE IF Lt(t, a) THEN Sub(a, t)
  ELSE IF Lt(a, Neg(t)) THEN Add(a, t)
  ELSE R(0)

RECURSIVE ProxApply(_, _, _)
ProxApply(p, alpha, v) ==
  LET \* projection of v on the ball of radius eps around y
      proj(dv, nrm) == IF Leq(nrm, p.eps) THEN v
                       ELSE VAdd(p.y, VScale(Div(p.eps, nrm), dv))
      projOf(dv) == proj(dv, Norm(dv))
  IN  CASE p.f = "NoOp" -> v
        [] p.f = "L2Reg" ->
             \* (v + lamda*alpha*y) / (1 + lamda*alpha)
             VDivS(VAdd(v, VScale(Mul(p.lamda, alpha), p.y)),
                   Add(R(1), Mul(p.lamda, alpha)))
        [] p.f = "L1Reg" ->
             [i \in 1..Len(v) |-> SoftThresh(Mul(p.lamda, alpha), v[i])]
        [] p.f = "L2Proj" -> projOf(VSub(v, p.y))
        [] p.f = "Conj" ->
             \* Moreau: v - alpha * prox(1/alpha, v/alpha)
             VSub(v, VScale(alpha,
                     ProxApply(p.inner, Div(R(1), alpha), VDivS(v, alpha))))
        [] p.f = "Stack" ->
             ProxApply(p.p1, alpha, SubSeq(v, 1, p.n1))
               \o ProxApply(p.p2, alpha, SubSeq(v, p.n1 + 1, Len(v)))

(***************************************************************************)
(* The state a method works on: s.cls is the class of the object, s.d its  *)
(* attribute dictionary (self.__dict__), s.heap the array buffers, s.exc   *)
(* the exception                                                           *)
(* that ended the method ("none" while it runs).  A statement is skipped   *)
(* once an exception is pending; reading an attribute that does not exist  *)
(* raises AttributeError.                                                  *)
(***************************************************************************)
St(cls, d, heap) == [cls |-> cls, d |-> d, heap |-> heap, exc |-> "none"]
Raise(s, e) == IF s.exc = "none" THEN [s EXCEPT !.exc = e] ELSE s
Has(s, a) == a \in DOMAIN s.d

\* one statement: `reads` are the attributes it loads, `t` the state after it
Stmt(s, reads, t) ==
  IF s.exc # "none" THEN s
  ELSE IF ~(reads \subseteq DOMAIN s.d) THEN Raise(s, "AttributeError")
  ELSE t

\* self.a = v
SetAttr(s, a, v) == [s EXCEPT !.d = (a :> v) @@ s.d]
\* del self.a
DelAttr(s, a) ==
  Stmt(s, {a}, [s EXCEPT !.d = [x \in (DOMAIN s.d) \ {a} |-> s.d[x]]])
\* the array an attribute refers to
Arr(s, a) == s.heap[s.d[a].id]
\* util.move_to(self.a, v), util.axpy(self.a, ...), self.a -= ...: in place
Store(s, a, v) == [s EXCEPT !.heap[s.d[a].id] = v]
\* self.a = <a new array holding v>
SetNew(s, a, v) ==
  [s EXCEPT !.heap = Append(s.heap, v), !.d = (a :> Ref(Len(s.heap) + 1)) @@ s.d]


(***************************************************************************)
(* Callables handed to the algorithms.  `env` maps each harness object to  *)
(* its attribute dictionary: the closures LinearLeastSquares builds read   *)
(* their harness (self) when they are called.                              *)
(***************************************************************************)
\* gradient of a quadratic, x |-> M x - b (a caller-supplied gradf)
GradQuad(M, b) == [k |-> "gradquad", M |-> M, b |-> b]
\* a closure defined inside a method of harness object `self`
Closure(f, self) == [k |-> "closure", f |-> f, self |-> self]
\* an opaque callable without arguments (AltMin's min1, min2)
Callable(name) == [k |-> "callable", f |-> name]
\* x + a*v where v is an array or a scalar that numpy broadcasts
Bcast(v, heap, n) == IF v.k = "ref" THEN heap[v.id] ELSE [i \in 1..n |-> v]

\* gradf of LinearLeastSquares._get_GradientMethod
LinearLeastSquares_gradf(a, heap, x) ==
  LET \* r = self.A(x) - self.y; if self.weights is not None: r *= self.weights
      r1(r) == IF ~IsNone(a.weights) THEN VMul(r, heap[a.weights.id]) ELSE r
      \* gradf_x = self.A.H(r)
      g0(r) == LinopApply(LinopH(a.A), r)
      \* if self.lamda != 0: gradf_x += lamda * x (or lamda * R.H(R(x)))
      g1(g) == IF ~IsZero(a.lamda)
               THEN IF IsNone(a.R) THEN VAdd(g, VScale(a.lamda, x))
                    ELSE VAdd(g, VScale(a.lamda,
                               LinopApply(LinopH(a.R), LinopApply(a.R, x))))
               ELSE g
      \* if self.mu != 0: gradf_x += mu * (x - z)
      g2(g) == IF ~IsZero(a.mu)
               THEN VAdd(g, VScale(a.mu, VSub(x, Bcast(a.z, heap, Len(x)))))
               ELSE g
  IN  g2(g1(g0(r1(VSub(LinopApply(a.A, x), heap[a.y.id])))))

\* gradh of LinearLeastSquares._get_PrimalDualHybridGradient
LinearLeastSquares_gradh(a, heap, x) ==
  LET \* if self.lamda > 0: gradh_x += lamda * x (or lamda * R.H(R(x)))
      h1(h) == IF IsPos(a.lamda)
               THEN IF IsNone(a.R) THEN VAdd(h, VScale(a.lamda, x))
                    ELSE VAdd(h, VScale(a.lamda,
                               LinopApply(LinopH(a.R), LinopApply(a.R, x))))
               ELSE h
      \* if self.mu > 0: gradh_x += mu * (x - z)
      h2(h) == IF IsPos(a.mu)
               THEN VAdd(h, VScale(a.mu, VSub(x, Bcast(a.z, heap, Len(x)))))
               ELSE h
  IN  h2(h1(VZero(Len(x))))

\* f(v) for a callable f taking one array
CallFn(f, v, heap, env) ==
  CASE f.k = "linop" -> LinopApply(f, v)
    [] f.k = "gradquad" -> VSub(MatVec(f.M, v), f.b)
    [] f.k = "closure" /\ f.f = "gradf" -> LinearLeastSquares_gradf(env[f.self], heap, v)
    [] f.k = "closure" /\ f.f = "gradh" -> LinearLeastSquares_gradh(env[f.self], heap, v)

\* a call of an external operator: it raises when `fault` is set
Call(s, fault, reads, t) ==
  Stmt(s, reads, IF fault THEN Raise(s, "OperatorError") ELSE t)

(***************************************************************************)
(* class Alg                                                               *)
(***************************************************************************)
\* Alg.__init__ (util.Device(device) is kept as the attribute `device`)
Alg__ctor(d, max_iter) == ("max_iter" :> max_iter) @@ ("device" :> None) @@ d

Alg__init(s) == s

Alg__update(s) == Raise(s, "NotImplementedError")

\* a predicate's outcome: the exception raised ("none") and the value returned
Ret(exc, val) == [exc |-> exc, val |-> val]

Alg__doneBuggy(s) ==
  IF {"iter", "max_iter"} \subseteq DOMAIN s.d
  THEN Ret("none", s.d.iter > s.d.max_iter)
  ELSE Ret("AttributeError", FALSE)

Alg__done(s) ==
  IF {"iter", "max_iter"} \subseteq DOMAIN s.d
  THEN Ret("none", s.d.iter >= s.d.max_iter)
  ELSE Ret("AttributeError", FALSE)

Alg__cleanup(s) == s

(***************************************************************************)
(* class PowerMethod                                                       *)
(***************************************************************************)
PowerMethod__ctor(A, x, max_iter) ==
  Alg__ctor(("A" :> A) @@ ("x" :> x), max_iter)

PowerMethod__init(s) == Stmt(s, {"x"}, s)

PowerMethod__update(s, fault, env) ==
  LET \* self.max_eig = util.asscalar(util.norm(y))
      u1(t, y) == Stmt(t, {}, SetAttr(t, "max_eig", Norm(y)))
      \* util.move_to(self.x, y / self.max_eig)
      u2(t, y) == Stmt(t, {"x", "max_eig"}, Store(t, "x", VDivS(y, t.d.max_eig)))
      \* y = self.A(self.x)
      from1(t, y) == u2(u1(Call(t, fault, {"A", "x"}, t), y), y)
  IN  from1(s, CallFn(s.d.A, Arr(s, "x"), s.heap, env))

(***************************************************************************)
(* class ProximalPointMethod                                               *)
(***************************************************************************)
ProximalPointMethod__ctor(proxf, alpha, x, max_iter) ==
  Alg__ctor(("proxf" :> proxf) @@ ("alpha" :> alpha) @@ ("x" :> x), max_iter)

ProximalPointMethod__update(s, fault, env) ==
  Call(s, fault, {"x", "proxf", "alpha"},
       Store(s, "x", ProxApply(s.d.proxf, s.d.alpha, Arr(s, "x"))))


(***************************************************************************)
(* class GradientMethod                                                    *)
(***************************************************************************)
GradientMethod__ctor(gradf, x, alpha, proxg, accelerate, max_iter) ==
  Alg__ctor(("gradf" :> gradf) @@ ("alpha" :> alpha) @@ ("accelerate" :> accelerate)
              @@ ("proxg" :> proxg) @@ ("x" :> x), max_iter)

GradientMethod__init(s) ==
  LET s1 == IF s.d.accelerate
            THEN SetAttr(SetNew(s, "z", Arr(s, "x")), "t", R(1))
            ELSE s
      s2 == IF s.d.accelerate \/ ~IsNone(s.d.proxg)
            THEN SetNew(s1, "x_old", Arr(s1, "x"))
            ELSE s1
  IN  SetAttr(s2, "resid", Inf)

GradientMethod__update(s, fault, env) ==
  LET stepres(t) == t.d.accelerate \/ ~IsNone(t.d.proxg)
      \* util.move_to(self.x_old, self.x)
      u1(t) == IF stepres(t)
               THEN Stmt(t, {"x_old", "x"}, Store(t, "x_old", Arr(t, "x")))
               ELSE t
      \* util.move_to(self.x, self.z)
      u2(t) == IF t.d.accelerate
               THEN Stmt(t, {"x", "z"}, Store(t, "x", Arr(t, "z")))
               ELSE t
      \* util.axpy(self.x, -self.alpha, gradf_x)
      u3(t, gradf_x) ==
        Stmt(t, {"x", "alpha"},
             IF IsNone(t.d.alpha) THEN Raise(t, "TypeError")
             ELSE Store(t, "x", VAdd(Arr(t, "x"), VScale(Neg(t.d.alpha), gradf_x))))
      \* util.move_to(self.x, self.proxg(self.alpha, self.x))
      u4(t) == IF ~IsNone(t.d.proxg)
               THEN Stmt(t, {"x", "proxg", "alpha"},
                         Store(t, "x", ProxApply(t.d.proxg, t.d.alpha, Arr(t, "x"))))
               ELSE t
      \* self.t = (1 + (1 + 4 * t_old**2)**0.5) / 2
      tNew(t_old) == Div(Add(R(1), Sqrt(Add(R(1), Mul(R(4), Mul(t_old, t_old))))), R(2))
      \* util.move_to(self.z, self.x + (t_old - 1) / self.t * (self.x - self.x_old))
      u5a(t, t_old, t_new) ==
        Store(SetAttr(t, "t", t_new), "z",
              VAdd(Arr(t, "x"),
                   VScale(Div(Sub(t_old, R(1)), t_new),
                          VSub(Arr(t, "x"), Arr(t, "x_old")))))
      u5(t) == IF t.d.accelerate
               THEN Stmt(t, {"t", "z", "x", "x_old"}, u5a(t, t.d.t, tNew(t.d.t)))
               ELSE t
      \* self.resid = ...
      u6(t, gradf_x) ==
        IF stepres(t)
        THEN Stmt(t, {"x", "x_old", "alpha"},
                  SetAttr(t, "resid",
                          Norm(VDivS(VSub(Arr(t, "x"), Arr(t, "x_old")),
                                     Sqrt(t.d.alpha)))))
        ELSE Stmt(t, {}, SetAttr(t, "resid", Norm(gradf_x)))
      \* gradf_x = self.gradf(self.x) and what follows it
      rest(t, gradf_x) ==
        u6(u5(u4(u3(Call(t, fault, {"gradf", "x"}, t), gradf_x))), gradf_x)
      from3(t) == rest(t, CallFn(t.d.gradf, Arr(t, "x"), t.heap, env))
  IN  from3(u2(u1(s)))

\* a slip: done() that only looks at the iteration count
GradientMethod__doneBuggy(s) == Alg__done(s)

GradientMethod__done(s) ==
  IF ~({"iter", "max_iter"} \subseteq DOMAIN s.d) THEN Ret("AttributeError", FALSE)
  ELSE IF s.d.iter >= s.d.max_iter THEN Ret("none", TRUE)
  ELSE IF ~Has(s, "resid") THEN Ret("AttributeError", FALSE)
  ELSE Ret("none", IsZero(s.d.resid))

\* a slip: x_old removed only when accelerated
GradientMethod__cleanupBuggy(s) ==
  IF s.d.accelerate THEN DelAttr(DelAttr(DelAttr(s, "z"), "t"), "x_old") ELSE s

GradientMethod__cleanup(s) ==
  LET s1 == IF s.d.accelerate THEN DelAttr(DelAttr(s, "z"), "t") ELSE s
  IN  IF s.d.accelerate \/ ~IsNone(s.d.proxg) THEN DelAttr(s1, "x_old") ELSE s1

(***************************************************************************)
(* class ConjugateGradient                                                 *)
(***************************************************************************)
ConjugateGradient__ctor(A, b, x, P, max_iter) ==
  Alg__ctor(("A" :> A) @@ ("P" :> P) @@ ("x" :> x) @@ ("b" :> b)
              @@ ("rzold" :> Inf), max_iter)

\* a slip: r a copy of b instead of the same buffer
ConjugateGradient__initBuggy(s, env) ==
  LET \* self.b -= self.A(self.x): in place, on the buffer b refers to
      i1(t) == Stmt(t, {"b", "A", "x"},
                    IF IsNone(t.d.b) THEN Raise(t, "TypeError")
                    ELSE Store(t, "b", VSub(Arr(t, "b"),
                                            CallFn(t.d.A, Arr(t, "x"), t.heap, env))))
      i2(t) == Stmt(t, {"b"}, SetNew(t, "r", Arr(t, "b")))
      zOf(t) == IF IsNone(t.d.P) THEN Arr(t, "r")
                ELSE CallFn(t.d.P, Arr(t, "r"), t.heap, env)
      \* p = z.copy() if max_iter > 1 else z; z is r itself when P is None and
      \* a new array P(r) otherwise
      i3(t, z) == Stmt(t, {"P", "r", "max_iter"},
                       IF t.d.max_iter > 1 \/ ~IsNone(t.d.P)
                       THEN SetNew(t, "p", z)
                       ELSE SetAttr(t, "p", t.d.r))
      i4(t) == Stmt(t, {}, SetAttr(t, "zero_gradient", FALSE))
      i5(t, z) == Stmt(t, {"r"}, SetAttr(t, "rzold", Dot(Arr(t, "r"), z)))
      i6(t) == Stmt(t, {"rzold"}, SetAttr(t, "resid", Sqrt(t.d.rzold)))
      rest(t, z) == i6(i5(i4(i3(t, z)), z))
      from3(t) == IF t.exc # "none" THEN t ELSE rest(t, zOf(t))
  IN  from3(i2(i1(s)))

ConjugateGradient__init(s, env) ==
  LET \* self.b -= self.A(self.x): in place, on the buffer b refers to
      i1(t) == Stmt(t, {"b", "A", "x"},
                    IF IsNone(t.d.b) THEN Raise(t, "TypeError")
                    ELSE Store(t, "b", VSub(Arr(t, "b"),
                                            CallFn(t.d.A, Arr(t, "x"), t.heap, env))))
      \* self.r = self.b: the same buffer
      i2(t) == Stmt(t, {"b"}, SetAttr(t, "r", t.d.b))
      zOf(t) == IF IsNone(t.d.P) THEN Arr(t, "r")
                ELSE CallFn(t.d.P, Arr(t, "r"), t.heap, env)
      \* p = z.copy() if max_iter > 1 else z; z is r itself when P is None and
      \* a new array P(r) otherwise
      i3(t, z) == Stmt(t, {"P", "r", "max_iter"},
                       IF t.d.max_iter > 1 \/ ~IsNone(t.d.P)
                       THEN SetNew(t, "p", z)
                       ELSE SetAttr(t, "p", t.d.r))
      i4(t) == Stmt(t, {}, SetAttr(t, "zero_gradient", FALSE))
      i5(t, z) == Stmt(t, {"r"}, SetAttr(t, "rzold", Dot(Arr(t, "r"), z)))
      i6(t) == Stmt(t, {"rzold"}, SetAttr(t, "resid", Sqrt(t.d.rzold)))
      rest(t, z) == i6(i5(i4(i3(t, z)), z))
      from3(t) == IF t.exc # "none" THEN t ELSE rest(t, zOf(t))
  IN  from3(i2(i1(s)))

\* a slip: the residual and the direction skipped one update early
ConjugateGradient__updateBuggy(s, fault, env) ==
  LET zOf(t) == IF IsNone(t.d.P) THEN Arr(t, "r")
                ELSE CallFn(t.d.P, Arr(t, "r"), t.heap, env)
      \* self.alpha = self.rzold / pAp
      u1(t, pAp) == Stmt(t, {"rzold"}, SetAttr(t, "alpha", Div(t.d.rzold, pAp)))
      \* util.axpy(self.x, self.alpha, self.p)
      u2(t) == Stmt(t, {"x", "alpha", "p"},
                    Store(t, "x", VAdd(Arr(t, "x"), VScale(t.d.alpha, Arr(t, "p")))))
      \* util.axpy(self.r, -self.alpha, Ap)
      u3(t, Ap) == Stmt(t, {"r", "alpha"},
                        Store(t, "r", VAdd(Arr(t, "r"), VScale(Neg(t.d.alpha), Ap))))
      \* beta = rznew / self.rzold; util.xpay(self.p, beta, z): p = p * beta + z;
      \* self.rzold = rznew
      u4b(t, z, rznew) ==
        SetAttr(Store(t, "p", VAdd(VScale(Div(rznew, t.d.rzold), Arr(t, "p")), z)),
                "rzold", rznew)
      u4a(t, z) == u4b(t, z, Dot(Arr(t, "r"), z))
      u4(t) == Stmt(t, {"P", "r", "rzold", "p"}, u4a(t, zOf(t)))
      \* if self.iter < self.max_iter - 2: <update r, p, rzold>
      u34(t, Ap) == Stmt(t, {"iter", "max_iter"},
                         IF t.d.iter < t.d.max_iter - 2 THEN u4(u3(t, Ap)) ELSE t)
      u5(t) == Stmt(t, {"rzold"}, SetAttr(t, "resid", Sqrt(t.d.rzold)))
      \* if pAp == 0: self.zero_gradient = True; return
      body(t, Ap, pAp) ==
        IF t.exc # "none" THEN t
        ELSE IF IsZero(pAp) THEN SetAttr(t, "zero_gradient", TRUE)
        ELSE u5(u34(u2(u1(t, pAp)), Ap))
      from1(t, Ap) == body(Call(t, fault, {"A", "p"}, t), Ap, Dot(Arr(t, "p"), Ap))
  IN  from1(s, CallFn(s.d.A, Arr(s, "p"), s.heap, env))

ConjugateGradient__update(s, fault, env) ==
  LET zOf(t) == IF IsNone(t.d.P) THEN Arr(t, "r")
                ELSE CallFn(t.d.P, Arr(t, "r"), t.heap, env)
      \* self.alpha = self.rzold / pAp
      u1(t, pAp) == Stmt(t, {"rzold"}, SetAttr(t, "alpha", Div(t.d.rzold, pAp)))
      \* util.axpy(self.x, self.alpha, self.p)
      u2(t) == Stmt(t, {"x", "alpha", "p"},
                    Store(t, "x", VAdd(Arr(t, "x"), VScale(t.d.alpha, Arr(t, "p")))))
      \* util.axpy(self.r, -self.alpha, Ap)
      u3(t, Ap) == Stmt(t, {"r", "alpha"},
                        Store(t, "r", VAdd(Arr(t, "r"), VScale(Neg(t.d.alpha), Ap))))
      \* beta = rznew / self.rzold; util.xpay(self.p, beta, z): p = p * beta + z;
      \* self.rzold = rznew
      u4b(t, z, rznew) ==
        SetAttr(Store(t, "p", VAdd(VScale(Div(rznew, t.d.rzold), Arr(t, "p")), z)),
                "rzold", rznew)
      u4a(t, z) == u4b(t, z, Dot(Arr(t, "r"), z))
      u4(t) == Stmt(t, {"P", "r", "rzold", "p"}, u4a(t, zOf(t)))
      \* if self.iter < self.max_iter - 1: <update r, p, rzold>
      u34(t, Ap) == Stmt(t, {"iter", "max_iter"},
                         IF t.d.iter < t.d.max_iter - 1 THEN u4(u3(t, Ap)) ELSE t)
      u5(t) == Stmt(t, {"rzold"}, SetAttr(t, "resid", Sqrt(t.d.rzold)))
      \* if pAp == 0: self.zero_gradient = True; return
      body(t, Ap, pAp) ==
        IF t.exc # "none" THEN t
        ELSE IF IsZero(pAp) THEN SetAttr(t, "zero_gradient", TRUE)
        ELSE u5(u34(u2(u1(t, pAp)), Ap))
      from1(t, Ap) == body(Call(t, fault, {"A", "p"}, t), Ap, Dot(Arr(t, "p"), Ap))
  IN  from1(s, CallFn(s.d.A, Arr(s, "p"), s.heap, env))

\* a slip: done() that does not look at zero_gradient
ConjugateGradient__doneNoZero(s) ==
  IF ~({"iter", "max_iter"} \subseteq DOMAIN s.d) THEN Ret("AttributeError", FALSE)
  ELSE IF s.d.iter >= s.d.max_iter THEN Ret("none", TRUE)
  ELSE IF ~Has(s, "resid") THEN Ret("AttributeError", FALSE)
  ELSE Ret("none", IsZero(s.d.resid))

\* a slip: done() that does not look at the residual
ConjugateGradient__doneBuggy(s) ==
  IF ~({"iter", "max_iter"} \subseteq DOMAIN s.d) THEN Ret("AttributeError", FALSE)
  ELSE IF s.d.iter >= s.d.max_iter THEN Ret("none", TRUE)
  ELSE IF ~Has(s, "zero_gradient") THEN Ret("AttributeError", FALSE)
  ELSE Ret("none", s.d.zero_gradient)

ConjugateGradient__done(s) ==
  IF ~({"iter", "max_iter"} \subseteq DOMAIN s.d) THEN Ret("AttributeError", FALSE)
  ELSE IF s.d.iter >= s.d.max_iter THEN Ret("none", TRUE)
  ELSE IF ~Has(s, "zero_gradient") THEN Ret("AttributeError", FALSE)
  ELSE IF s.d.zero_gradient THEN Ret("none", TRUE)
  ELSE IF ~Has(s, "resid") THEN Ret("AttributeError", FALSE)
  ELSE Ret("none", IsZero(s.d.resid))

ConjugateGradient__cleanup(s) == DelAttr(DelAttr(DelAttr(s, "r"), "p"), "rzold")


(***************************************************************************)
(* class NewtonsMethod.  hessf(x) is the constant Hessian H of a quadratic *)
(* f, proxHg(H, v) the minimiser of 1/2 u'Hu - v'u (g = 0) for a 1 x 1 H.  *)
(***************************************************************************)
NewtonsMethod__ctor(gradf, hessf, proxHg, x, max_iter, sigma) ==
  Alg__ctor(("gradf" :> gradf) @@ ("hessf" :> hessf) @@ ("proxHg" :> proxHg)
              @@ ("sigma" :> sigma) @@ ("x" :> x) @@ ("lamda" :> Inf), max_iter)

NewtonsMethod__update(s, fault, env) ==
  LET \* s = self.proxHg(hessfx, hessfx(self.x) - self.gradf(self.x)); d = s - self.x
      dOf(t, hessfx, x) ==
        VSub(VDivS(VSub(CallFn(hessfx, x, t.heap, env),
                        CallFn(t.d.gradf, x, t.heap, env)), hessfx.M[1][1]), x)
      \* self.lamda = util.dot(d, hessfx(d))**0.5
      lamdaOf(t, hessfx, d) == Sqrt(Dot(d, CallFn(hessfx, d, t.heap, env)))
      u1(t) == Stmt(t, {"proxHg", "gradf", "x"},
                    SetAttr(t, "lamda",
                            lamdaOf(t, t.d.hessf, dOf(t, t.d.hessf, Arr(t, "x")))))
      \* self.x += alpha * d: the name alpha is bound nowhere
  IN  Raise(u1(Call(s, fault, {"hessf", "x"}, s)), "NameError")

(***************************************************************************)
(* class PrimalDualHybridGradient (tau, sigma are scalars)                 *)
(***************************************************************************)
PrimalDualHybridGradient__ctor(proxfc, proxg, A, AH, x, u, tau, sigma, theta, gradh, gamma_primal, gamma_dual, max_iter) ==
  Alg__ctor(("proxfc" :> proxfc) @@ ("proxg" :> proxg) @@ ("gradh" :> gradh)
              @@ ("A" :> A) @@ ("AH" :> AH) @@ ("u" :> u) @@ ("x" :> x)
              @@ ("tau" :> tau) @@ ("sigma" :> sigma) @@ ("theta" :> theta)
              @@ ("gamma_primal" :> gamma_primal) @@ ("gamma_dual" :> gamma_dual),
            max_iter)

PrimalDualHybridGradient__init(s) ==
  LET i1(t) == Stmt(t, {"x"}, SetNew(t, "x_ext", Arr(t, "x")))
      i2(t) == Stmt(t, {"u"}, SetNew(t, "u_old", Arr(t, "u")))
      i3(t) == Stmt(t, {"x"}, SetNew(t, "x_old", Arr(t, "x")))
  IN  Alg__init(i3(i2(i1(s))))

\* a slip: the rebalancing made whenever gamma_primal is positive
PrimalDualHybridGradient_stepsAlways(tau, sigma, theta0, gamma_primal, gamma_dual) ==
  IF IsPos(gamma_primal)
  THEN LET theta == Div(R(1), Sqrt(Add(R(1), Mul(Mul(R(2), gamma_primal), AbsNum(tau)))))
       IN  <<Mul(tau, theta), Div(sigma, theta), theta>>
  ELSE IF IsZero(gamma_primal) /\ IsPos(gamma_dual)
  THEN LET theta == Div(R(1), Sqrt(Add(R(1), Mul(Mul(R(2), gamma_dual), AbsNum(sigma)))))
       IN  <<Div(tau, theta), Mul(sigma, theta), theta>>
  ELSE <<tau, sigma, theta0>>

\* a slip: the two step sizes exchanged in the rebalancing
PrimalDualHybridGradient_stepsBuggy(tau, sigma, theta0, gamma_primal, gamma_dual) ==
  IF IsPos(gamma_primal) /\ IsZero(gamma_dual)
  THEN LET theta == Div(R(1), Sqrt(Add(R(1), Mul(Mul(R(2), gamma_primal), AbsNum(tau)))))
       IN  <<Div(tau, theta), Mul(sigma, theta), theta>>
  ELSE IF IsZero(gamma_primal) /\ IsPos(gamma_dual)
  THEN LET theta == Div(R(1), Sqrt(Add(R(1), Mul(Mul(R(2), gamma_dual), AbsNum(sigma)))))
       IN  <<Mul(tau, theta), Div(sigma, theta), theta>>
  ELSE <<tau, sigma, theta0>>

\* the step-size update of PrimalDualHybridGradient._update: <<tau, sigma, theta>>
PrimalDualHybridGradient_steps(tau, sigma, theta0, gamma_primal, gamma_dual) ==
  IF IsPos(gamma_primal) /\ IsZero(gamma_dual)
  THEN LET theta == Div(R(1), Sqrt(Add(R(1), Mul(Mul(R(2), gamma_primal), AbsNum(tau)))))
       IN  <<Mul(tau, theta), Div(sigma, theta), theta>>
  ELSE IF IsZero(gamma_primal) /\ IsPos(gamma_dual)
  THEN LET theta == Div(R(1), Sqrt(Add(R(1), Mul(Mul(R(2), gamma_dual), AbsNum(sigma)))))
       IN  <<Div(tau, theta), Mul(sigma, theta), theta>>
  ELSE <<tau, sigma, theta0>>

PrimalDualHybridGradient__update(s, fault, env) ==
  LET u1(t) == Stmt(t, {"u_old", "u"}, Store(t, "u_old", Arr(t, "u")))
      u2(t) == Stmt(t, {"x_old", "x"}, Store(t, "x_old", Arr(t, "x")))
      \* Update dual.
      u3(t) == Call(t, fault, {"A", "x_ext"}, t)
      u4(t) == Stmt(t, {"u", "sigma"},
                    IF IsNone(t.d.sigma) THEN Raise(t, "TypeError")
                    ELSE Store(t, "u",
                           VAdd(Arr(t, "u"),
                                VScale(t.d.sigma,
                                       CallFn(t.d.A, Arr(t, "x_ext"), t.heap, env)))))
      u5(t) == Stmt(t, {"u", "proxfc", "sigma"},
                    Store(t, "u", ProxApply(t.d.proxfc, t.d.sigma, Arr(t, "u"))))
      \* Update primal.
      delta_x(t) ==
        IF ~IsNone(t.d.gradh)
        THEN VAdd(CallFn(t.d.AH, Arr(t, "u"), t.heap, env),
                  CallFn(t.d.gradh, Arr(t, "x"), t.heap, env))
        ELSE CallFn(t.d.AH, Arr(t, "u"), t.heap, env)
      u6(t) == Stmt(t, {"AH", "u", "gradh", "x", "tau"},
                    IF IsNone(t.d.tau) THEN Raise(t, "TypeError")
                    ELSE Store(t, "x", VAdd(Arr(t, "x"), VScale(Neg(t.d.tau), delta_x(t)))))
      u7(t) == Stmt(t, {"x", "proxg", "tau"},
                    Store(t, "x", ProxApply(t.d.proxg, t.d.tau, Arr(t, "x"))))
      \* Update step-size if neccessary.
      stOf(t) == PrimalDualHybridGradient_steps(t.d.tau, t.d.sigma, t.d.theta,
                                                t.d.gamma_primal, t.d.gamma_dual)
      u8a(t, st) == SetAttr(SetAttr(t, "tau", st[1]), "sigma", st[2])
      u8(t) == Stmt(t, {"device", "gamma_primal", "gamma_dual", "tau", "sigma", "theta"},
                    u8a(t, stOf(t)))
      \* Extrapolate primal.
      u9(t, theta) ==
        Stmt(t, {"x", "x_old", "x_ext"},
             Store(t, "x_ext",
                   VAdd(Arr(t, "x"), VScale(theta, VSub(Arr(t, "x"), Arr(t, "x_old"))))))
      u10(t) ==
        Stmt(t, {"u", "u_old", "tau", "sigma"},
             SetAttr(t, "resid",
                     Sqrt(Add(Norm2(VDivS(VSub(Arr(t, "x"), Arr(t, "x_old")),
                                          Sqrt(t.d.tau))),
                              Norm2(VDivS(VSub(Arr(t, "u"), Arr(t, "u_old")),
                                          Sqrt(t.d.sigma)))))))
      from8(t) == u10(u9(u8(t), stOf(t)[3]))
  IN  from8(u7(u6(u5(u4(u3(u2(u1(s))))))))

PrimalDualHybridGradient__cleanup(s) ==
  DelAttr(DelAttr(DelAttr(s, "x_ext"), "u_old"), "x_old")

(***************************************************************************)
(* class AltMin                                                            *)
(***************************************************************************)
AltMin__ctor(min1, min2, max_iter) ==
  Alg__ctor(("min1" :> min1) @@ ("min2" :> min2), max_iter)

AltMin__update(s, fault, env) ==
  LET s1 == Call(s, fault, {"min1"}, s)
  IN  Stmt(s1, {"min2"}, s1)


(***************************************************************************)
(* The public methods of Alg, dispatching on the class of the object.      *)
(***************************************************************************)
\* whether a call of the algorithm runs its hook (_init, _update, _done,
\* _cleanup) inside `with self.device:`
Alg_device(call) == call \in {"init", "update", "done"}

Alg_init(s, env) ==
  LET s1 == SetAttr(s, "iter", 0)
  IN  Stmt(s1, {"device"},
        CASE s.cls = "PowerMethod" -> PowerMethod__init(s1)
          [] s.cls = "GradientMethod" -> GradientMethod__init(s1)
          [] s.cls = "ConjugateGradient" -> ConjugateGradient__init(s1, env)
          [] s.cls = "PrimalDualHybridGradient" -> PrimalDualHybridGradient__init(s1)
          [] OTHER -> Alg__init(s1))

Alg__updateOf(s, fault, env) ==
  CASE s.cls = "PowerMethod" -> PowerMethod__update(s, fault, env)
    [] s.cls = "ProximalPointMethod" -> ProximalPointMethod__update(s, fault, env)
    [] s.cls = "GradientMethod" -> GradientMethod__update(s, fault, env)
    [] s.cls = "ConjugateGradient" -> ConjugateGradient__update(s, fault, env)
    [] s.cls = "NewtonsMethod" -> NewtonsMethod__update(s, fault, env)
    [] s.cls = "PrimalDualHybridGradient" -> PrimalDualHybridGradient__update(s, fault, env)
    [] s.cls = "AltMin" -> AltMin__update(s, fault, env)
    [] OTHER -> Alg__update(s)

\* a slip: the early return of _update (zero curvature) also skips the count
Alg_updateBuggy(s, fault, env) ==
  LET count(t) == IF t.exc = "none" /\ Has(t, "zero_gradient") /\ t.d.zero_gradient
                  THEN t
                  ELSE Stmt(t, {"iter"}, SetAttr(t, "iter", t.d.iter + 1))
  IN  count(Stmt(s, {"device"}, Alg__updateOf(s, fault, env)))

Alg_update(s, fault, env) ==
  LET \* self.iter += 1
      count(t) == Stmt(t, {"iter"}, SetAttr(t, "iter", t.d.iter + 1))
  IN  count(Stmt(s, {"device"}, Alg__updateOf(s, fault, env)))

\* a call of done(): the state it leaves, the exception and the value
DoneRet(s, r) == [s |-> s, exc |-> r.exc, val |-> r.val]

\* a slip: done() that latches the iteration bound into the object
Alg_doneBuggy(s) ==
  LET latch(r) ==
        DoneRet(IF r.exc = "none" /\ ~r.val THEN SetAttr(s, "max_iter", s.d.iter + 1)
                ELSE s, r)
  IN  latch(CASE s.cls = "GradientMethod" -> GradientMethod__done(s)
              [] s.cls = "ConjugateGradient" -> ConjugateGradient__done(s)
              [] OTHER -> Alg__done(s))

Alg_done(s) ==
  IF ~Has(s, "device") THEN DoneRet(s, Ret("AttributeError", FALSE))
  ELSE DoneRet(s, CASE s.cls = "GradientMethod" -> GradientMethod__done(s)
                    [] s.cls = "ConjugateGradient" -> ConjugateGradient__done(s)
                    [] OTHER -> Alg__done(s))

Alg_cleanup(s) ==
  CASE s.cls = "GradientMethod" -> GradientMethod__cleanup(s)
    [] s.cls = "ConjugateGradient" -> ConjugateGradient__cleanup(s)
    [] s.cls = "PrimalDualHybridGradient" -> PrimalDualHybridGradient__cleanup(s)
    [] OTHER -> Alg__cleanup(s)


(***************************************************************************)
(* The world a harness method works on: every harness object (w.apps),     *)
(* every algorithm object (w.algs), the array buffers (w.heap) and the     *)
(* pending exception (w.exc).  Objects are named by their index.           *)
(***************************************************************************)
World(a, g, h) == [apps |-> a, algs |-> g, heap |-> h, exc |-> "none"]
Obj(i) == [k |-> "obj", id |-> i]
AppSt(w, i) == St(w.apps[i].cls, w.apps[i].d, w.heap)
AlgSt(w, i) == St(w.algs[i].cls, w.algs[i].d, w.heap)
PutApp(w, i, s) ==
  [w EXCEPT !.apps[i].d = s.d, !.heap = s.heap,
            !.exc = IF w.exc = "none" THEN s.exc ELSE w.exc]
PutAlg(w, i, s) ==
  [w EXCEPT !.algs[i].d = s.d, !.heap = s.heap,
            !.exc = IF w.exc = "none" THEN s.exc ELSE w.exc]
\* the attribute dictionaries of the harness objects, for the closures
Env(w) == [i \in 1..Len(w.apps) |-> w.apps[i].d]
WRaise(w, e) == IF w.exc = "none" THEN [w EXCEPT !.exc = e] ELSE w
NewArr(w, v) == [w EXCEPT !.heap = Append(@, v)]
NewAlg(w, cls, d) == [w EXCEPT !.algs = Append(@, [cls |-> cls, d |-> d])]
NewApp(w, cls, d) == [w EXCEPT !.apps = Append(@, [cls |-> cls, d |-> d])]
\* the algorithm object bound to harness i
AlgOf(w, i) == w.apps[i].d.alg.id

(***************************************************************************)
(* class App                                                               *)
(***************************************************************************)
App__ctor(d, alg, show_pbar) == ("alg" :> alg) @@ ("show_pbar" :> show_pbar) @@ d

(***************************************************************************)
(* class MaxEig                                                            *)
(***************************************************************************)
\* MaxEig.__init__: the new harness is the last of w.apps
MaxEig__ctor(w, A, max_iter, show_pbar) ==
  LET \* alg = PowerMethod(A, self.x, max_iter=max_iter); super().__init__(alg, ...)
      c2(w2, x) == NewApp(w2, "MaxEig", App__ctor("x" :> x, Obj(Len(w2.algs)), show_pbar))
      c1(w1, x) == c2(NewAlg(w1, "PowerMethod", PowerMethod__ctor(A, x, max_iter)), x)
      \* self.x = util.empty(A.ishape): an array of unspecified contents
  IN  c1(NewArr(w, [i \in 1..Len(A.M[1]) |-> Unk]), Ref(Len(w.heap) + 1))

\* util.move_to(self.x, util.randn_like(self.x)); rnd is the random draw
MaxEig__init(w, i, rnd) ==
  LET s == AppSt(w, i)
  IN  PutApp(w, i, Stmt(s, {"x"}, Store(s, "x", rnd)))

MaxEig__summarize(w, i) ==
  LET s == AppSt(w, i)
      s1 == Stmt(s, {"show_pbar"}, s)
  IN  IF s1.exc = "none" /\ s.d.show_pbar
      THEN IF ~({"pbar", "alg"} \subseteq DOMAIN s.d)
              \/ ~("max_eig" \in DOMAIN w.algs[AlgOf(w, i)].d)
           THEN WRaise(w, "AttributeError")
           ELSE [w EXCEPT !.apps[i].d.pbar.postfix = "max_eig"]
      ELSE PutApp(w, i, s1)

\* the value returned, or the exception raised instead
MaxEig__output(w, i) ==
  IF ~("alg" \in DOMAIN w.apps[i].d) \/ ~("max_eig" \in DOMAIN w.algs[AlgOf(w, i)].d)
  THEN Ret("AttributeError", None)
  ELSE Ret("none", w.algs[AlgOf(w, i)].d.max_eig)


(***************************************************************************)
(* class LinearLeastSquares.  alg_name is a string, "None" when absent.    *)
(***************************************************************************)
\* A.H * W * A (or A.H * A) + lamda * I (or lamda * R.H * R) + mu * I, as
\* _get_ConjugateGradient and _get_alpha both build it
LinearLeastSquares_AHA(d, heap) ==
  LET n == Len(heap[d.x.id])
      a1(M) == IF ~IsZero(d.lamda)
               THEN IF IsNone(d.R) THEN MatAdd(M, MatScale(d.lamda, MatId(n)))
                    ELSE MatAdd(M, MatScale(d.lamda, MatMul(MatT(d.R.M), d.R.M)))
               ELSE M
      a2(M) == IF ~IsZero(d.mu) THEN MatAdd(M, MatScale(d.mu, MatId(n))) ELSE M
  IN  Linop(a2(a1(IF ~IsNone(d.weights)
                  THEN MatMul(MatT(d.A.M), MatMul(MatDiag(heap[d.weights.id]), d.A.M))
                  ELSE MatMul(MatT(d.A.M), d.A.M))))

LinearLeastSquares__get_ConjugateGradient(w, i) ==
  LET bind(w1) == [w1 EXCEPT !.apps[i].d = ("alg" :> Obj(Len(w1.algs))) @@ @]
  IN  bind(NewAlg(w, "ConjugateGradient",
                  ConjugateGradient__ctor(LinearLeastSquares_AHA(w.apps[i].d, w.heap),
                                          None, w.apps[i].d.x, w.apps[i].d.P,
                                          w.apps[i].d.max_iter)))

LinearLeastSquares__get_GradientMethod(w, i) ==
  LET d == w.apps[i].d
      bind(w1) == [w1 EXCEPT !.apps[i].d = ("alg" :> Obj(Len(w1.algs))) @@ @]
  IN  bind(NewAlg(w, "GradientMethod",
                  GradientMethod__ctor(Closure("gradf", i), d.x, d.alpha, d.proxg,
                                       d.accelerate, d.max_iter)))

\* the forward operator with the square root of the weights folded in
LinearLeastSquares_WA(d, heap) ==
  IF ~IsNone(d.weights)
  THEN Linop(MatMul(MatDiag([j \in 1..Len(heap[d.weights.id]) |->
                               Sqrt(heap[d.weights.id][j])]), d.A.M))
  ELSE d.A

LinearLeastSquares__get_PrimalDualHybridGradient(w, i) ==
  LET d == w.apps[i].d
      proxg == IF IsNone(d.proxg) THEN ProxNoOp ELSE d.proxg
      hasH == IsPos(d.lamda) \/ IsPos(d.mu)
      gradh == IF hasH THEN Closure("gradh", i) ELSE None
      gamma_primal == IF hasH
                      THEN IF IsNone(d.R) THEN Add(d.lamda, d.mu) ELSE d.mu
                      ELSE R(0)
      u == Ref(Len(w.heap) + 1)
      \* y = -weights_sqrt * self.y, or -self.y
      yOf(y0) == IF ~IsNone(d.weights)
                 THEN [j \in 1..Len(y0) |-> Mul(Neg(Sqrt(w.heap[d.weights.id][j])), y0[j])]
                 ELSE VScale(R(-1), y0)
      \* G is None: u = util.zeros_like(y)
      plain(A, y) ==
        NewAlg(NewArr(w, VZero(Len(y))), "PrimalDualHybridGradient",
               PrimalDualHybridGradient__ctor(
                 ProxL2Reg(R(1), y), proxg, A, LinopH(A), d.x, u,
                 d.tau, d.sigma, R(1), gradh, gamma_primal, R(1), d.max_iter))
      \* A = linop.Vstack([A, self.G]); u = util.zeros(A.oshape)
      stacked(AG, y) ==
        NewAlg(NewArr(w, VZero(Len(AG.M))), "PrimalDualHybridGradient",
               PrimalDualHybridGradient__ctor(
                 ProxStack(ProxL2Reg(R(1), y), Len(y), ProxConj(d.proxg)), ProxNoOp,
                 AG, LinopH(AG), d.x, u,
                 d.tau, d.sigma, R(1), gradh, gamma_primal, R(0), d.max_iter))
      build(A, y) ==
        IF IsNone(d.G) THEN plain(A, y) ELSE stacked(Linop(MatVstack(A.M, d.G.M)), y)
      bind(w1) == [w1 EXCEPT !.apps[i].d = ("alg" :> Obj(Len(w1.algs))) @@ @]
  IN  bind(build(LinearLeastSquares_WA(d, w.heap), yOf(w.heap[d.y.id])))

\* a slip: the proxg check of the ConjugateGradient branch left out
LinearLeastSquares__get_algBuggy(w, i) ==
  LET d == w.apps[i].d
      name == IF d.alg_name = "None"
              THEN IF IsNone(d.proxg) THEN "ConjugateGradient"
                   ELSE IF IsNone(d.G) THEN "GradientMethod"
                   ELSE "PrimalDualHybridGradient"
              ELSE d.alg_name
      w1 == [w EXCEPT !.apps[i].d.alg_name = name]
  IN  IF name = "ConjugateGradient"
      THEN LinearLeastSquares__get_ConjugateGradient(w1, i)
      ELSE IF name = "GradientMethod"
      THEN IF ~IsNone(d.G)
           THEN WRaise(w1, "ValueError: GradientMethod cannot have G specified.")
           ELSE LinearLeastSquares__get_GradientMethod(w1, i)
      ELSE IF name = "PrimalDualHybridGradient"
      THEN IF ~IsNone(d.R)
           THEN WRaise(w1, "ValueError: PrimalDualHybridGradient cannot have R specified.")
           ELSE LinearLeastSquares__get_PrimalDualHybridGradient(w1, i)
      ELSE WRaise(w1, "ValueError: Invalid alg_name")

\* a slip: the default taken from the class docstring, GradientMethod when G
\* is given and PrimalDualHybridGradient otherwise
LinearLeastSquares__get_algDoc(w, i) ==
  LET d == w.apps[i].d
      name == IF d.alg_name = "None"
              THEN IF IsNone(d.proxg) THEN "ConjugateGradient"
                   ELSE IF ~IsNone(d.G) THEN "GradientMethod"
                   ELSE "PrimalDualHybridGradient"
              ELSE d.alg_name
      w1 == [w EXCEPT !.apps[i].d.alg_name = name]
  IN  IF name = "ConjugateGradient"
      THEN IF ~IsNone(d.proxg)
           THEN WRaise(w1, "ValueError: ConjugateGradient cannot have proxg specified.")
           ELSE LinearLeastSquares__get_ConjugateGradient(w1, i)
      ELSE IF name = "GradientMethod"
      THEN IF ~IsNone(d.G)
           THEN WRaise(w1, "ValueError: GradientMethod cannot have G specified.")
           ELSE LinearLeastSquares__get_GradientMethod(w1, i)
      ELSE IF name = "PrimalDualHybridGradient"
      THEN IF ~IsNone(d.R)
           THEN WRaise(w1, "ValueError: PrimalDualHybridGradient cannot have R specified.")
           ELSE LinearLeastSquares__get_PrimalDualHybridGradient(w1, i)
      ELSE WRaise(w1, "ValueError: Invalid alg_name")

LinearLeastSquares__get_alg(w, i) ==
  LET d == w.apps[i].d
      name == IF d.alg_name = "None"
              THEN IF IsNone(d.proxg) THEN "ConjugateGradient"
                   ELSE IF IsNone(d.G) THEN "GradientMethod"
                   ELSE "PrimalDualHybridGradient"
              ELSE d.alg_name
      w1 == [w EXCEPT !.apps[i].d.alg_name = name]
  IN  IF name = "ConjugateGradient"
      THEN IF ~IsNone(d.proxg)
           THEN WRaise(w1, "ValueError: ConjugateGradient cannot have proxg specified.")
           ELSE LinearLeastSquares__get_ConjugateGradient(w1, i)
      ELSE IF name = "GradientMethod"
      THEN IF ~IsNone(d.G)
           THEN WRaise(w1, "ValueError: GradientMethod cannot have G specified.")
           ELSE LinearLeastSquares__get_GradientMethod(w1, i)
      ELSE IF name = "PrimalDualHybridGradient"
      THEN IF ~IsNone(d.R)
           THEN WRaise(w1, "ValueError: PrimalDualHybridGradient cannot have R specified.")
           ELSE LinearLeastSquares__get_PrimalDualHybridGradient(w1, i)
      ELSE WRaise(w1, "ValueError: Invalid alg_name")

\* LinearLeastSquares.__init__(**a): the new harness is the last of w.apps
LinearLeastSquares__ctor(w, a) ==
  LET w1 == NewApp(w, "LinearLeastSquares", a)
  IN  LinearLeastSquares__get_alg(w1, Len(w1.apps))


\* `if self.save_objective_values: self.objective_values = []`, the last
\* statement of LinearLeastSquares._init
\* a slip: the trace of an earlier run kept
LinearLeastSquares__init_tailBuggy(w, i) ==
  IF w.exc = "none" /\ w.apps[i].d.save_objective_values
     /\ ~("objective_values" \in DOMAIN w.apps[i].d)
  THEN [w EXCEPT !.apps[i].d = ("objective_values" :> <<>>) @@ @]
  ELSE w

LinearLeastSquares__init_tail(w, i) ==
  IF w.exc = "none" /\ w.apps[i].d.save_objective_values
  THEN [w EXCEPT !.apps[i].d = ("objective_values" :> <<>>) @@ @]
  ELSE w

\* the operator whose largest eigenvalue _get_tau estimates: A.H * S * A
LinearLeastSquares_tauOp(w, i) ==
  LET d == w.apps[i].d
      stack(A) == IF ~IsNone(d.G) THEN MatVstack(A.M, d.G.M) ELSE A.M
      aha(M) == Linop(MatMul(MatT(M), MatScale(w.algs[AlgOf(w, i)].d.sigma, M)))
  IN  aha(stack(LinearLeastSquares_WA(d, w.heap)))

\* the operator whose largest eigenvalue _get_sigma estimates: A * T * A.H
LinearLeastSquares_sigmaOp(w, i) ==
  LET d == w.apps[i].d
      stack(A) == IF ~IsNone(d.G) THEN MatVstack(A.M, d.G.M) ELSE A.M
      aah(M) == Linop(MatMul(M, MatScale(w.algs[AlgOf(w, i)].d.tau, MatT(M))))
  IN  aah(stack(LinearLeastSquares_WA(d, w.heap)))

\* LinearLeastSquares._init up to the point where it either ends (call =
\* "none") or runs the MaxEig harness it has just built, the last of w.apps
\* (call names the step size being derived)
LinearLeastSquares__init(w, i) ==
  LET d == w.apps[i].d
      g == AlgOf(w, i)
      cls == w.algs[g].cls
      \* max_eig_app = MaxEig(op, max_iter=self.max_power_iter, ...), about to run
      eig(w0, op, call) ==
        [w |-> MaxEig__ctor(w0, op, d.max_power_iter, d.show_pbar), call |-> call]
      ends(w1) == [w |-> LinearLeastSquares__init_tail(w1, i), call |-> "none"]
      \* self.alg.sigma = 1; self._get_tau()
      both(w1) == eig(w1, LinearLeastSquares_tauOp(w1, i), "tau")
      \* self.alg.b = self.A.H(y); if self.mu != 0: util.axpy(self.alg.b, mu, z)
      setb(w1) == [w1 EXCEPT !.algs[g].d = ("b" :> Ref(Len(w1.heap))) @@ @]
      b1(b) == IF ~IsZero(d.mu)
               THEN VAdd(b, VScale(d.mu, Bcast(d.z, w.heap, Len(b))))
               ELSE b
      b0(y) == LinopApply(LinopH(d.A), y)
  IN  IF cls = "ConjugateGradient"
      THEN ends(setb(NewArr(w, b1(b0(IF ~IsNone(d.weights)
                                     THEN VMul(w.heap[d.weights.id], w.heap[d.y.id])
                                     ELSE w.heap[d.y.id])))))
      ELSE IF cls = "GradientMethod"
      THEN IF IsNone(d.alpha)
           THEN eig(w, LinearLeastSquares_AHA(d, w.heap), "alpha")
           ELSE ends(w)
      ELSE IF cls = "PrimalDualHybridGradient"
      THEN IF IsNone(d.tau) /\ ~IsNone(d.sigma)
           THEN eig(w, LinearLeastSquares_tauOp(w, i), "tau")
           ELSE IF ~IsNone(d.tau) /\ IsNone(d.sigma)
           THEN eig(w, LinearLeastSquares_sigmaOp(w, i), "sigma")
           ELSE IF IsNone(d.tau) /\ IsNone(d.sigma)
           THEN both([w EXCEPT !.algs[g].d.sigma = R(1)])
           ELSE ends(w)
      ELSE ends(w)

\* a slip: the estimate assigned to the other step size
LinearLeastSquares__init_resumeSwap(w, i, call, ret) ==
  LET d == w.apps[i].d
      g == AlgOf(w, i)
      w1 == IF call = "alpha"
            THEN IF IsZero(ret) THEN WRaise(w, "ZeroDivisionError")
                 ELSE [w EXCEPT !.algs[g].d.alpha = Div(R(1), ret)]
            ELSE IF call = "tau"
            THEN IF IsZero(Add(Add(ret, d.lamda), d.mu))
                 THEN WRaise(w, "ZeroDivisionError")
                 ELSE [w EXCEPT !.algs[g].d.sigma = Div(R(1), Add(Add(ret, d.lamda), d.mu))]
            ELSE IF IsZero(ret) THEN WRaise(w, "ZeroDivisionError")
                 ELSE [w EXCEPT !.algs[g].d.tau = Div(R(1), ret)]
  IN  LinearLeastSquares__init_tail(w1, i)

\* a slip: alpha set to the estimate itself
LinearLeastSquares__init_resumeBuggy(w, i, call, ret) ==
  LET d == w.apps[i].d
      g == AlgOf(w, i)
      w1 == IF call = "alpha"
            THEN IF IsZero(ret) THEN WRaise(w, "ZeroDivisionError")
                 ELSE [w EXCEPT !.algs[g].d.alpha = ret]
            ELSE IF call = "tau"
            THEN IF IsZero(Add(Add(ret, d.lamda), d.mu))
                 THEN WRaise(w, "ZeroDivisionError")
                 ELSE [w EXCEPT !.algs[g].d.tau = Div(R(1), Add(Add(ret, d.lamda), d.mu))]
            ELSE IF IsZero(ret) THEN WRaise(w, "ZeroDivisionError")
                 ELSE [w EXCEPT !.algs[g].d.sigma = Div(R(1), ret)]
  IN  LinearLeastSquares__init_tail(w1, i)

\* the rest of LinearLeastSquares._init once max_eig_app.run() returned ret
LinearLeastSquares__init_resume(w, i, call, ret) ==
  LET d == w.apps[i].d
      g == AlgOf(w, i)
      w1 == IF call = "alpha"
            THEN IF IsZero(ret) THEN WRaise(w, "ZeroDivisionError")
                 ELSE [w EXCEPT !.algs[g].d.alpha = Div(R(1), ret)]
            ELSE IF call = "tau"
            THEN IF IsZero(Add(Add(ret, d.lamda), d.mu))
                 THEN WRaise(w, "ZeroDivisionError")
                 ELSE [w EXCEPT !.algs[g].d.tau = Div(R(1), Add(Add(ret, d.lamda), d.mu))]
            ELSE IF IsZero(ret) THEN WRaise(w, "ZeroDivisionError")
                 ELSE [w EXCEPT !.algs[g].d.sigma = Div(R(1), ret)]
  IN  LinearLeastSquares__init_tail(w1, i)

\* a regulariser g handed to LinearLeastSquares: lamda * sum |v_i|
FnL1(lamda) == [k |-> "fn", f |-> "l1", lamda |-> lamda]
FnApply(g, v) == Mul(g.lamda, SumSeq([j \in 1..Len(v) |-> AbsNum(v[j])]))

LinearLeastSquares_objective(d, heap) ==
  LET x == heap[d.x.id]
      \* r = self.A(self.x) - self.y; if weights: r *= self.weights**0.5
      r1(r) == IF ~IsNone(d.weights)
               THEN [j \in 1..Len(r) |-> Mul(r[j], Sqrt(heap[d.weights.id][j]))]
               ELSE r
      \* obj = 1 / 2 * util.norm2(r)
      o0(r) == Mul(Rat(1, 2), Norm2(r))
      \* if self.lamda > 0: obj += lamda / 2 * norm2(x) (or of R(x))
      o1(o) == IF IsPos(d.lamda)
               THEN IF IsNone(d.R) THEN Add(o, Mul(Div(d.lamda, R(2)), Norm2(x)))
                    ELSE Add(o, Mul(Div(d.lamda, R(2)), Norm2(LinopApply(d.R, x))))
               ELSE o
      \* if self.mu != 0: obj += mu / 2 * norm2(x - z)
      o2(o) == IF ~IsZero(d.mu)
               THEN Add(o, Mul(Div(d.mu, R(2)), Norm2(VSub(x, Bcast(d.z, heap, Len(x))))))
               ELSE o
      \* if self.proxg is not None: ... obj += self.g(self.x) (or of G(x))
      o3(o) == IF ~IsNone(d.proxg)
               THEN IF IsNone(d.g)
                    THEN Ret("ValueError: Cannot compute objective when proxg is specified, but g is not.", None)
                    ELSE IF IsNone(d.G) THEN Ret("none", Add(o, FnApply(d.g, x)))
                    ELSE Ret("none", Add(o, FnApply(d.g, LinopApply(d.G, x))))
               ELSE Ret("none", o)
  IN  o3(o2(o1(o0(r1(VSub(LinopApply(d.A, x), heap[d.y.id]))))))

LinearLeastSquares__summarize(w, i) ==
  LET d == w.apps[i].d
      \* self.objective_values.append(self.objective())
      save(obj) ==
        IF obj.exc # "none" THEN WRaise(w, obj.exc)
        ELSE IF ~("objective_values" \in DOMAIN d) THEN WRaise(w, "AttributeError")
        ELSE [w EXCEPT !.apps[i].d.objective_values = Append(@, obj.val)]
      \* self.pbar.set_postfix(obj=...) or (resid=...)
      postfix(w1) ==
        IF w1.exc = "none" /\ d.show_pbar
        THEN IF ~("pbar" \in DOMAIN d) THEN WRaise(w1, "AttributeError")
             ELSE IF d.save_objective_values
             THEN [w1 EXCEPT !.apps[i].d.pbar.postfix = "obj"]
             ELSE IF ~("resid" \in DOMAIN w.algs[AlgOf(w, i)].d)
             THEN WRaise(w1, "AttributeError")
             ELSE [w1 EXCEPT !.apps[i].d.pbar.postfix = "resid"]
        ELSE w1
  IN  postfix(IF d.save_objective_values
              THEN save(LinearLeastSquares_objective(d, w.heap))
              ELSE w)

LinearLeastSquares__output(w, i) == Ret("none", w.apps[i].d.x)

LinearLeastSquares__cleanup(w, i) ==
  LET g == AlgOf(w, i)
  IN  IF w.algs[g].cls = "ConjugateGradient"
      THEN PutAlg(w, g, DelAttr(AlgSt(w, g), "b"))
      ELSE w


(***************************************************************************)
(* class L2ConstrainedMinimization                                         *)
(***************************************************************************)
\* the default max_iter of MaxEig.__init__
MaxEigMaxIter == 30

\* L2ConstrainedMinimization.__init__(**a): the new harness is the last of
\* w.apps, the MaxEig harness it owns the one before
L2ConstrainedMinimization__ctor(w, a) ==
  LET wsq == [j \in 1..Len(w.heap[a.y.id]) |-> Sqrt(w.heap[a.weights.id][j])]
      \* super().__init__(alg, show_pbar=show_pbar)
      c4(w3, eigapp, u) ==
        NewApp(w3, "L2ConstrainedMinimization",
               App__ctor(("x" :> a.x) @@ ("max_eig_app" :> eigapp) @@ ("u" :> u),
                         Obj(Len(w3.algs)), a.show_pbar))
      \* alg = PrimalDualHybridGradient(proxfc, proxg, A, A.H, x, u, tau, sigma, ...)
      c3(w2, eigapp, op, y) ==
        c4(NewAlg(w2, "PrimalDualHybridGradient",
             PrimalDualHybridGradient__ctor(
               IF IsNone(a.G) THEN ProxConj(ProxL2Proj(a.eps, y))
               ELSE ProxConj(ProxStack(ProxL2Proj(a.eps, y), Len(y), a.proxg)),
               IF IsNone(a.G) THEN a.proxg ELSE ProxNoOp,
               op, LinopH(op), a.x, Ref(Len(w2.heap)),
               a.tau, a.sigma, R(1), None, R(0), R(0), a.max_iter)),
           eigapp, Ref(Len(w2.heap)))
      \* self.u = util.zeros(A.oshape)
      c2(w1, op, y) == c3(NewArr(w1, VZero(Len(op.M))), Obj(Len(w1.apps)), op, y)
      \* self.max_eig_app = MaxEig(A.H * A, ...)
      c1(op, y) ==
        c2(MaxEig__ctor(w, Linop(MatMul(MatT(op.M), op.M)), MaxEigMaxIter, TRUE), op, y)
      \* A = linop.Vstack([A, G]) when G is given
      c0(A, y) == c1(IF IsNone(a.G) THEN A ELSE Linop(MatVstack(A.M, a.G.M)), y)
  IN  c0(IF ~IsNone(a.weights) THEN Linop(MatMul(MatDiag(wsq), a.A.M)) ELSE a.A,
         IF ~IsNone(a.weights) THEN VMul(wsq, w.heap[a.y.id]) ELSE w.heap[a.y.id])

\* L2ConstrainedMinimization._init up to the call of self.max_eig_app.run()
\* (call = "sigma"), or all of it (call = "none")
L2ConstrainedMinimization__init(w, i) ==
  LET g == AlgOf(w, i)
  IN  IF IsNone(w.algs[g].d.tau) \/ IsNone(w.algs[g].d.sigma)
      THEN [w |-> [w EXCEPT !.algs[g].d.tau = R(1)], call |-> "sigma"]
      ELSE [w |-> w, call |-> "none"]

L2ConstrainedMinimization__init_resume(w, i, ret) ==
  IF IsZero(ret) THEN WRaise(w, "ZeroDivisionError")
  ELSE [w EXCEPT !.algs[AlgOf(w, i)].d.sigma = Div(R(1), ret)]

L2ConstrainedMinimization__summarize(w, i) ==
  LET d == w.apps[i].d
  IN  IF d.show_pbar
      THEN IF ~("pbar" \in DOMAIN d) \/ ~("resid" \in DOMAIN w.algs[AlgOf(w, i)].d)
           THEN WRaise(w, "AttributeError")
           ELSE [w EXCEPT !.apps[i].d.pbar.postfix = "resid"]
      ELSE w

L2ConstrainedMinimization__output(w, i) == Ret("none", w.apps[i].d.x)


(***************************************************************************)
(* The hooks of a harness, dispatching on its class.  _init yields the     *)
(* world and, when it has to run a nested MaxEig harness before it can     *)
(* end, the step size that run is for (call) and the harness to run (sub). *)
(***************************************************************************)
App__init(w, i, rnd) ==
  LET lls(r) == [w |-> r.w, call |-> r.call, sub |-> Len(r.w.apps)]
      l2cm(r) == [w |-> r.w, call |-> r.call, sub |-> w.apps[i].d.max_eig_app.id]
  IN  CASE w.apps[i].cls = "MaxEig" ->
             [w |-> MaxEig__init(w, i, rnd), call |-> "none", sub |-> 0]
        [] w.apps[i].cls = "LinearLeastSquares" -> lls(LinearLeastSquares__init(w, i))
        [] w.apps[i].cls = "L2ConstrainedMinimization" ->
             l2cm(L2ConstrainedMinimization__init(w, i))
        [] OTHER -> [w |-> w, call |-> "none", sub |-> 0]

App__init_resume(w, i, call, ret) ==
  CASE w.apps[i].cls = "LinearLeastSquares" -> LinearLeastSquares__init_resume(w, i, call, ret)
    [] w.apps[i].cls = "L2ConstrainedMinimization" -> L2ConstrainedMinimization__init_resume(w, i, ret)
    [] OTHER -> w

App__pre_update(w, i) == w

App__post_update(w, i) == w

App__summarize(w, i) ==
  CASE w.apps[i].cls = "MaxEig" -> MaxEig__summarize(w, i)
    [] w.apps[i].cls = "LinearLeastSquares" -> LinearLeastSquares__summarize(w, i)
    [] w.apps[i].cls = "L2ConstrainedMinimization" -> L2ConstrainedMinimization__summarize(w, i)
    [] OTHER -> w

App__cleanup(w, i) ==
  CASE w.apps[i].cls = "LinearLeastSquares" -> LinearLeastSquares__cleanup(w, i)
    [] OTHER -> w

App__output(w, i) ==
  CASE w.apps[i].cls = "MaxEig" -> MaxEig__output(w, i)
    [] w.apps[i].cls = "LinearLeastSquares" -> LinearLeastSquares__output(w, i)
    [] w.apps[i].cls = "L2ConstrainedMinimization" -> L2ConstrainedMinimization__output(w, i)
    [] OTHER -> Ret("none", None)

\* self.pbar = tqdm(total=self.alg.max_iter), self.pbar.update(), self.pbar.close()
Pbar == [k |-> "pbar", n |-> 0, postfix |-> "", closed |-> FALSE]
PbarNew(w, i) ==
  IF w.exc = "none" /\ w.apps[i].d.show_pbar
  THEN [w EXCEPT !.apps[i].d = ("pbar" :> Pbar) @@ @] ELSE w
PbarUpdate(w, i) ==
  IF w.exc = "none" /\ w.apps[i].d.show_pbar
  THEN [w EXCEPT !.apps[i].d.pbar.n = @ + 1] ELSE w
PbarClose(w, i) ==
  IF w.exc = "none" /\ w.apps[i].d.show_pbar
  THEN [w EXCEPT !.apps[i].d.pbar.closed = TRUE] ELSE w

(***************************************************************************)
(* App.run as a control-flow graph.  A position names the call about to be *)
(* made: "init" self._init(), "alg_init" self.alg.init(), "test" the loop  *)
(* test self.alg.done(), "pre", "update", "post", "summarize" the loop     *)
(* body, "alg_cleanup", "cleanup", "output" the calls after the loop.      *)
(***************************************************************************)
\* a slip: harness cleanup before algorithm cleanup
App_run_nextBuggy(pc, done) ==
  CASE pc = "init" -> "alg_init"
    [] pc = "alg_init" -> "test"
    [] pc = "test" -> IF done THEN "cleanup" ELSE "pre"
    [] pc = "pre" -> "update"
    [] pc = "update" -> "post"
    [] pc = "post" -> "summarize"
    [] pc = "summarize" -> "test"
    [] pc = "cleanup" -> "alg_cleanup"
    [] pc = "alg_cleanup" -> "output"
    [] pc = "output" -> "returned"

\* a slip: a do-while loop, the body entered before the first test
App_run_nextDoWhile(pc, done) ==
  CASE pc = "init" -> "alg_init"
    [] pc = "alg_init" -> "pre"
    [] pc = "test" -> IF done THEN "alg_cleanup" ELSE "pre"
    [] pc = "pre" -> "update"
    [] pc = "update" -> "post"
    [] pc = "post" -> "summarize"
    [] pc = "summarize" -> "test"
    [] pc = "alg_cleanup" -> "cleanup"
    [] pc = "cleanup" -> "output"
    [] pc = "output" -> "returned"

App_run_next(pc, done) ==
  CASE pc = "init" -> "alg_init"
    [] pc = "alg_init" -> "test"
    [] pc = "test" -> IF done THEN "alg_cleanup" ELSE "pre"
    [] pc = "pre" -> "update"
    [] pc = "update" -> "post"
    [] pc = "post" -> "summarize"
    [] pc = "summarize" -> "test"
    [] pc = "alg_cleanup" -> "cleanup"
    [] pc = "cleanup" -> "output"
    [] pc = "output" -> "returned"


(***************************************************************************)
(* The programs checked: a caller builds one harness and runs it.  A       *)
(* scenario names the constructor call; its fields select the arguments.   *)
(*   cls        the class constructed (for "App", alg names the algorithm  *)
(*              the caller builds and hands to App)                        *)
(*   v          which of the operands below are used                       *)
(*   step       which of the step sizes the caller gives                   *)
(***************************************************************************)
MaxIter == 2
MaxRuns == 2
MaxProbe == 1

\* an array of integers
Vec(ints) == [j \in 1..Len(ints) |-> R(ints[j])]
\* the observations y a caller of LinearLeastSquares passes (v selects one)
Ys == << <<3>>, <<0>>, <<1>>, <<-2>>, <<1, 2>>, <<0, 0>>, <<-1, 1>>, <<3, 0>> >>

\* the symmetric positive-definite systems A x = b, and the x they start
\* from, a caller of ConjugateGradient solves (v - 4 selects one)
CGSystems ==
  << [A |-> <<<<1>>>>, b |-> <<-1>>, x |-> <<0>>],
     [A |-> <<<<2>>>>, b |-> <<0>>, x |-> <<0>>],
     [A |-> <<<<3>>>>, b |-> <<2>>, x |-> <<1>>],
     [A |-> <<<<2>>>>, b |-> <<2>>, x |-> <<1>>],
     [A |-> <<<<1, 0>>, <<0, 2>>>>, b |-> <<1, 2>>, x |-> <<0, 0>>],
     [A |-> <<<<2, 1>>, <<1, 2>>>>, b |-> <<1, 0>>, x |-> <<0, 0>>],
     [A |-> <<<<2, 1>>, <<1, 3>>>>, b |-> <<-1, 2>>, x |-> <<1, 0>>],
     [A |-> <<<<2, 1>>, <<1, 2>>>>, b |-> <<1, 1>>, x |-> <<0, 0>>],
     [A |-> <<<<1, 0>>, <<0, 1>>>>, b |-> <<2, -1>>, x |-> <<0, 0>>],
     [A |-> <<<<2, -1>>, <<-1, 2>>>>, b |-> <<0, 1>>, x |-> <<1, 0>>],
     [A |-> <<<<2, 1>>, <<1, 3>>>>, b |-> <<0, 0>>, x |-> <<0, 0>>] >>
\* the system of a scenario, as the matrix and arrays the caller passes
CGSystem(v) ==
  [A |-> [i \in 1..Len(CGSystems[v - 4].A) |-> Vec(CGSystems[v - 4].A[i])],
   b |-> Vec(CGSystems[v - 4].b), x |-> Vec(CGSystems[v - 4].x)]

\* the step sizes <<tau, sigma>> and the parameters <<gamma_primal,
\* gamma_dual>> a caller of PrimalDualHybridGradient passes, each a pair
\* <<numerator, denominator>> (v - 4 selects one); the first update keeps
\* these step sizes rational
PDHGSteps ==
  << [tau |-> <<4, 1>>, sigma |-> <<1, 1>>, gamma_primal |-> <<1, 1>>, gamma_dual |-> <<0, 1>>],
     [tau |-> <<3, 2>>, sigma |-> <<2, 3>>, gamma_primal |-> <<1, 1>>, gamma_dual |-> <<0, 1>>],
     [tau |-> <<5, 8>>, sigma |-> <<1, 4>>, gamma_primal |-> <<1, 1>>, gamma_dual |-> <<0, 1>>],
     [tau |-> <<3, 1>>, sigma |-> <<1, 6>>, gamma_primal |-> <<1, 2>>, gamma_dual |-> <<0, 1>>],
     [tau |-> <<2, 1>>, sigma |-> <<1, 2>>, gamma_primal |-> <<2, 1>>, gamma_dual |-> <<0, 1>>],
     [tau |-> <<1, 1>>, sigma |-> <<4, 1>>, gamma_primal |-> <<0, 1>>, gamma_dual |-> <<1, 1>>],
     [tau |-> <<2, 3>>, sigma |-> <<3, 2>>, gamma_primal |-> <<0, 1>>, gamma_dual |-> <<1, 1>>],
     [tau |-> <<1, 4>>, sigma |-> <<5, 8>>, gamma_primal |-> <<0, 1>>, gamma_dual |-> <<1, 1>>],
     [tau |-> <<1, 6>>, sigma |-> <<3, 1>>, gamma_primal |-> <<0, 1>>, gamma_dual |-> <<1, 2>>],
     [tau |-> <<1, 2>>, sigma |-> <<2, 1>>, gamma_primal |-> <<0, 1>>, gamma_dual |-> <<2, 1>>] >>
PDHGStep(v) ==
  [a \in {"tau", "sigma", "gamma_primal", "gamma_dual"} |->
     Rat(PDHGSteps[v - 4][a][1], PDHGSteps[v - 4][a][2])]

NoScenario ==
  [cls |-> "none", alg |-> "None", v |-> 1, max_iter |-> 0, show_pbar |-> FALSE,
   proxg |-> FALSE, G |-> FALSE, R |-> FALSE, g |-> FALSE, lamda |-> 0,
   accelerate |-> FALSE, step |-> "none", max_power_iter |-> 0,
   save_objective_values |-> FALSE, weights |-> FALSE]

AlgScenarios ==
  { [NoScenario EXCEPT !.cls = "App", !.alg = c[1], !.v = c[2], !.max_iter = n,
                       !.show_pbar = pb] :
      c \in ({"PowerMethod", "ProximalPointMethod", "NewtonsMethod", "AltMin"} \X {1})
              \cup ({"GradientMethod", "ConjugateGradient", "PrimalDualHybridGradient"}
                      \X (1..4)),
      n \in 0..MaxIter, pb \in BOOLEAN }

\* ConjugateGradient on the systems CGSystems, with at least as many
\* iterations allowed as the system has unknowns
CGSolveScenarios ==
  { [NoScenario EXCEPT !.cls = "App", !.alg = "ConjugateGradient", !.v = 4 + k[1],
                       !.max_iter = k[2]] :
      k \in { c \in (1..Len(CGSystems)) \X (1..(MaxIter + 1)) :
                c[2] >= Len(CGSystems[c[1]].b) } }

\* PrimalDualHybridGradient with the step sizes PDHGSteps
PDHGStepScenarios ==
  { [NoScenario EXCEPT !.cls = "App", !.alg = "PrimalDualHybridGradient",
                       !.v = 4 + k, !.max_iter = n] :
      k \in 1..Len(PDHGSteps), n \in 1..MaxIter }

\* GradientMethod with a proximal operator, plain and accelerated
GMProxScenarios ==
  { [NoScenario EXCEPT !.cls = "App", !.alg = "GradientMethod", !.v = k,
                       !.max_iter = n] :
      k \in 5..8, n \in 0..MaxIter }

MaxEigScenarios ==
  { [NoScenario EXCEPT !.cls = "MaxEig", !.max_iter = n, !.show_pbar = pb] :
      n \in 0..MaxIter, pb \in BOOLEAN }

\* every combination of alg_name, proxg, G and R (but the one whose
\* prox.Conj(None) no update can apply)
LLSCtorScenarios ==
  { sc \in
      { [NoScenario EXCEPT !.cls = "LinearLeastSquares", !.alg = a, !.proxg = c[1],
                           !.G = c[2], !.R = c[3], !.lamda = 1, !.max_iter = 1,
                           !.step = "both", !.g = TRUE] :
          a \in {"None", "ConjugateGradient", "GradientMethod",
                 "PrimalDualHybridGradient", "NoSuchMethod"},
          c \in BOOLEAN \X BOOLEAN \X BOOLEAN } :
    ~(sc.alg = "PrimalDualHybridGradient" /\ ~sc.proxg /\ sc.G /\ ~sc.R) }

\* the three algorithms LinearLeastSquares selects, over its options
LLSRunScenarios ==
  { [NoScenario EXCEPT !.cls = "LinearLeastSquares", !.proxg = c[1], !.G = c[2],
                       !.g = c[3], !.accelerate = c[4], !.max_iter = n,
                       !.show_pbar = o[1], !.save_objective_values = o[2],
                       !.step = st, !.max_power_iter = m] :
      c \in {<<FALSE, FALSE, FALSE, FALSE>>, <<TRUE, FALSE, FALSE, FALSE>>,
             <<TRUE, FALSE, TRUE, TRUE>>, <<TRUE, TRUE, FALSE, FALSE>>,
             <<TRUE, TRUE, TRUE, FALSE>>},
      n \in 0..MaxIter, o \in BOOLEAN \X BOOLEAN,
      st \in {"none", "both"}, m \in 0..1 }
  \cup
  { [NoScenario EXCEPT !.cls = "LinearLeastSquares", !.proxg = TRUE, !.G = TRUE,
                       !.g = TRUE, !.max_iter = 1, !.step = st, !.max_power_iter = 2] :
      st \in {"tau", "sigma"} }

\* the round trip: identity A, no regulariser, x = 0, over the observations Ys
LLSRoundTripScenarios ==
  { [NoScenario EXCEPT !.cls = "LinearLeastSquares", !.v = k, !.max_iter = n] :
      k \in 1..Len(Ys), n \in 1..MaxIter }

\* weighted least squares with the weights (1, 2), as a harness that is run
\* again and again (the inner harnesses of AltMin) is given
LLSReuseScenarios ==
  { [NoScenario EXCEPT !.cls = "LinearLeastSquares", !.v = 5, !.weights = TRUE,
                       !.max_iter = n, !.save_objective_values = o] :
      n \in 1..MaxIter, o \in BOOLEAN }

L2CMScenarios ==
  { [NoScenario EXCEPT !.cls = "L2ConstrainedMinimization", !.max_iter = n,
                       !.show_pbar = pb, !.step = st] :
      n \in 0..1, pb \in BOOLEAN, st \in {"none", "both", "tau", "sigma"} }

Scenarios ==
  AlgScenarios \cup CGSolveScenarios \cup PDHGStepScenarios \cup GMProxScenarios
    \cup MaxEigScenarios \cup LLSCtorScenarios \cup LLSRunScenarios
    \cup LLSRoundTripScenarios \cup LLSReuseScenarios \cup L2CMScenarios

\* the draws of util.randn_like for an array of n entries
Randn(n) ==
  IF n = 1 THEN {<<R(1)>>, <<R(-2)>>} ELSE {[j \in 1..n |-> IF j = 1 THEN R(1) ELSE R(0)]}

\* the operands
A2 == Linop(<<<<R(2)>>>>)
AZero == Linop(<<<<R(0)>>>>)
A1 == Linop(<<<<R(1)>>>>)
ASpd == Linop(<<<<R(2), R(1)>>, <<R(1), R(3)>>>>)
V1(a) == <<R(a)>>
EmptyDict == [a \in {} |-> None]

\* the algorithm object a caller of App builds itself; the arrays it
\* allocates for it are the first of the heap
BuildAlg(sc) ==
  LET x == Ref(1)
      n == sc.max_iter
  IN  CASE sc.alg = "PowerMethod" ->
             [heap |-> <<V1(1)>>, d |-> PowerMethod__ctor(A2, x, n)]
        [] sc.alg = "ProximalPointMethod" ->
             [heap |-> <<V1(1)>>,
              d |-> ProximalPointMethod__ctor(ProxL2Reg(R(1), V1(0)), R(1), x, n)]
        [] sc.alg = "GradientMethod" ->
             \* x starts off (v odd) or at (v even) the minimiser of (x - 1)^2
             IF sc.v > 4
             THEN \* with proxg the soft threshold: x starts off (v odd) or at
                  \* (v even) the minimiser 1/2 of (x - 1)^2 + |x|
                  [heap |-> << <<IF sc.v % 2 = 1 THEN R(0) ELSE Rat(1, 2)>> >>,
                   d |-> GradientMethod__ctor(GradQuad(A2.M, V1(2)), x, Rat(1, 4),
                           ProxL1Reg(R(1)), sc.v > 6, n)]
             ELSE [heap |-> <<V1(IF sc.v % 2 = 1 THEN 0 ELSE 1)>>,
                   d |-> GradientMethod__ctor(GradQuad(A2.M, V1(2)), x, Rat(1, 4),
                           None, sc.v > 2, n)]
        [] sc.alg = "ConjugateGradient" ->
             (CASE sc.v = 1 -> \* 2 x = 2 from x = 0
                    [heap |-> <<V1(0), V1(2)>>,
                     d |-> ConjugateGradient__ctor(A2, Ref(2), x, None, n)]
               [] sc.v = 2 -> \* 0 x = 1: zero curvature
                    [heap |-> <<V1(0), V1(1)>>,
                     d |-> ConjugateGradient__ctor(AZero, Ref(2), x, None, n)]
               [] sc.v = 3 -> \* a 2 x 2 system
                    [heap |-> <<<<R(0), R(0)>>, <<R(1), R(2)>>>>,
                     d |-> ConjugateGradient__ctor(ASpd, Ref(2), x, None, n)]
               [] sc.v = 4 -> \* 2 x = 2 from x = 1: solved at the start
                    [heap |-> <<V1(1), V1(2)>>,
                     d |-> ConjugateGradient__ctor(A2, Ref(2), x, A2, n)]
               [] sc.v > 4 -> \* one of the systems CGSystems
                    [heap |-> <<CGSystem(sc.v).x, CGSystem(sc.v).b>>,
                     d |-> ConjugateGradient__ctor(Linop(CGSystem(sc.v).A), Ref(2), x,
                                                   None, n)])
        [] sc.alg = "NewtonsMethod" ->
             [heap |-> <<V1(0)>>,
              d |-> NewtonsMethod__ctor(GradQuad(A2.M, V1(2)), A2, ProxNoOp, x, n, R(1))]
        [] sc.alg = "PrimalDualHybridGradient" ->
             IF sc.v > 4
             THEN \* the step sizes and parameters PDHGSteps
                  [heap |-> <<V1(0), V1(0)>>,
                   d |-> PrimalDualHybridGradient__ctor(
                           ProxL2Reg(R(1), V1(-1)), ProxNoOp, A2, LinopH(A2), x, Ref(2),
                           PDHGStep(sc.v).tau, PDHGStep(sc.v).sigma, R(1), None,
                           PDHGStep(sc.v).gamma_primal, PDHGStep(sc.v).gamma_dual, n)]
             ELSE [heap |-> <<V1(0), V1(0)>>,
                   d |-> PrimalDualHybridGradient__ctor(
                           ProxL2Reg(R(1), V1(-1)), ProxNoOp, A2, LinopH(A2), x, Ref(2),
                           R(1), R(1), IF sc.v = 4 THEN Rat(1, 2) ELSE R(1), None,
                           R(IF sc.v \in {2, 4} THEN 1 ELSE 0),
                           R(IF sc.v \in {3, 4} THEN 1 ELSE 0), n)]
        [] sc.alg = "AltMin" ->
             [heap |-> <<>>, d |-> AltMin__ctor(Callable("min1"), Callable("min2"), n)]

\* the keyword arguments of LinearLeastSquares(A, y, x, ...)
LLSArgs(sc) ==
  [A |-> Linop(MatId(Len(Ys[sc.v]))), y |-> Ref(2), x |-> Ref(1),
   proxg |-> IF sc.proxg THEN ProxL1Reg(R(1)) ELSE None,
   lamda |-> R(sc.lamda),
   G |-> IF sc.G THEN Linop(MatId(Len(Ys[sc.v]))) ELSE None,
   g |-> IF sc.g THEN FnL1(R(1)) ELSE None,
   R |-> IF sc.R THEN A2 ELSE None,
   weights |-> IF sc.weights THEN Ref(3) ELSE None, mu |-> R(0), z |-> R(0),
   alg_name |-> sc.alg, max_iter |-> sc.max_iter, P |-> None,
   alpha |-> IF sc.step = "none" THEN None ELSE Rat(1, 4),
   max_power_iter |-> sc.max_power_iter, accelerate |-> sc.accelerate,
   tau |-> IF sc.step \in {"both", "tau"} THEN R(1) ELSE None,
   sigma |-> IF sc.step \in {"both", "sigma"} THEN R(1) ELSE None,
   save_objective_values |-> sc.save_objective_values, show_pbar |-> sc.show_pbar]

\* the keyword arguments of L2ConstrainedMinimization(A, y, x, proxg, eps, ...)
L2CMArgs(sc) ==
  [A |-> A2, y |-> Ref(2), x |-> Ref(1), proxg |-> ProxL1Reg(R(1)), eps |-> R(1),
   G |-> None, weights |-> None, max_iter |-> sc.max_iter,
   tau |-> IF sc.step \in {"both", "tau"} THEN Rat(1, 2) ELSE None,
   sigma |-> IF sc.step \in {"both", "sigma"} THEN Rat(1, 2) ELSE None,
   show_pbar |-> sc.show_pbar]

\* the constructor call of a scenario: the world it leaves (w.exc the
\* exception it raised, if any)
Build(sc) ==
  CASE sc.cls = "App" ->
         LET a == BuildAlg(sc)
             w == NewAlg(World(<<>>, <<>>, a.heap), sc.alg, a.d)
         IN  NewApp(w, "App", App__ctor(EmptyDict, Obj(1), sc.show_pbar))
    [] sc.cls = "MaxEig" ->
         MaxEig__ctor(World(<<>>, <<>>, <<>>), A2, sc.max_iter, sc.show_pbar)
    [] sc.cls = "LinearLeastSquares" ->
         LinearLeastSquares__ctor(
           World(<<>>, <<>>,
                 IF sc.weights
                 THEN <<VZero(Len(Ys[sc.v])), Vec(Ys[sc.v]), Vec(<<1, 2>>)>>
                 ELSE <<VZero(Len(Ys[sc.v])), Vec(Ys[sc.v])>>),
           LLSArgs(sc))
    [] sc.cls = "L2ConstrainedMinimization" ->
         L2ConstrainedMinimization__ctor(World(<<>>, <<>>, <<V1(0), V1(2)>>), L2CMArgs(sc))


(***************************************************************************)
(* The state of the program.                                               *)
(*   apps, algs, heap  the harness objects, the algorithm objects and the  *)
(*                     array buffers                                       *)
(*   main              the harness the caller holds (0: none)              *)
(*   stack             the calls of run() in progress, the caller's first. *)
(*                     A frame records the harness (app), the position in  *)
(*                     run() (pc; "returned" once it returned, "raised"    *)
(*                     once an exception left it, `at` the position that   *)
(*                     raised), the step size a nested run is for (call),  *)
(*                     and the history of this call: the calls made (tr),  *)
(*                     the updates that returned (nupd), what done() was   *)
(*                     worth after init and after each update (dn), the    *)
(*                     values done() returned since the last update (seen),*)
(*                     the calls of done() the caller added (probes) and   *)
(*                     the calls of the algorithm whose hook ran with the  *)
(*                     algorithm's device context not entered (unscoped)   *)
(*   err               the exception that reached the caller ("none")      *)
(*   ret               the value the last run() returned                   *)
(*   args              the constructor call the caller made                *)
(*   runs              the number of calls of run() the caller made        *)
(***************************************************************************)
VARIABLES apps, algs, heap, main, stack, err, ret, args, runs

vars == <<apps, algs, heap, main, stack, err, ret, args, runs>>

W == World(apps, algs, heap)
Top == stack[Len(stack)]
At(pc) == stack # <<>> /\ Top.pc = pc
Frame(i) ==
  [app |-> i, pc |-> "init", at |-> "", call |-> "none", tr |-> <<>>, nupd |-> 0,
   dn |-> <<>>, seen |-> <<>>, probes |-> 0, unscoped |-> {}]

\* the frame f once the algorithm's hook of `call` has run
Scoped(f, call) ==
  [f EXCEPT !.unscoped = IF Alg_device(call) THEN @ ELSE @ \cup {call}]

\* what done() is worth in world w for algorithm g
DoneVal(w, g) == w.exc = "none" /\ Alg_done(AlgSt(w, g)).val

\* the call at the top frame's position has ended in world w, leaving the
\* frame as f: either run() goes on, or the exception leaves every run() in
\* progress and reaches the caller
Finish(w, f) ==
  /\ apps' = w.apps /\ algs' = w.algs /\ heap' = w.heap
  /\ IF w.exc = "none"
     THEN /\ stack' = [stack EXCEPT ![Len(stack)] = f]
          /\ err' = err
     ELSE /\ stack' = << [stack[1] EXCEPT !.pc = "raised", !.at = stack[1].pc,
                                          !.tr = IF Len(stack) = 1 THEN f.tr ELSE @,
                                          !.seen = IF Len(stack) = 1 THEN f.seen ELSE @] >>
          /\ err' = w.exc
  /\ UNCHANGED <<main, ret, args, runs>>

Init ==
  /\ apps = <<>> /\ algs = <<>> /\ heap = <<>>
  /\ main = 0 /\ stack = <<>> /\ err = "none" /\ ret = None
  /\ args = NoScenario /\ runs = 0

\* the caller constructs a harness
Construct ==
  LET built(sc, w) ==
        /\ args' = sc
        /\ apps' = w.apps /\ algs' = w.algs /\ heap' = w.heap
        /\ err' = w.exc
        /\ main' = IF w.exc = "none" THEN Len(w.apps) ELSE 0
  IN  /\ args = NoScenario
      /\ \E sc \in Scenarios : built(sc, Build(sc))
      /\ UNCHANGED <<stack, ret, runs>>

\* the caller calls run() on the harness it holds
Run ==
  /\ main # 0 /\ err = "none" /\ runs < MaxRuns
  /\ stack = <<>> \/ (Len(stack) = 1 /\ stack[1].pc = "returned")
  /\ stack' = <<Frame(main)>>
  /\ runs' = runs + 1
  /\ UNCHANGED <<apps, algs, heap, main, err, ret, args>>

\* self._init()
AppInit ==
  LET f == [Top EXCEPT !.tr = Append(@, "_init")]
      ends(r) ==
        IF r.call = "none"
        THEN Finish(r.w, [f EXCEPT !.pc = App_run_next("init", FALSE)])
        ELSE \* self.max_eig_app.run() / MaxEig(...).run() inside _init
             /\ apps' = r.w.apps /\ algs' = r.w.algs /\ heap' = r.w.heap
             /\ stack' = Append([stack EXCEPT ![Len(stack)] =
                                   [f EXCEPT !.pc = "init_wait", !.call = r.call]],
                                Frame(r.sub))
             /\ UNCHANGED <<main, err, ret, args, runs>>
  IN  /\ At("init")
      /\ \E rnd \in IF apps[Top.app].cls = "MaxEig"
                    THEN Randn(Len(heap[apps[Top.app].d.x.id])) ELSE {<<>>} :
           ends(App__init(W, Top.app, rnd))

\* the nested run() returned: the rest of self._init()
AppInitResume ==
  LET resumed(p, w) ==
        /\ apps' = w.apps /\ algs' = w.algs /\ heap' = w.heap
        /\ IF w.exc = "none"
           THEN /\ stack' = [SubSeq(stack, 1, Len(stack) - 1) EXCEPT ![Len(stack) - 1] =
                               [p EXCEPT !.pc = App_run_next("init", FALSE),
                                         !.call = "none"]]
                /\ err' = err
           ELSE /\ stack' = <<[stack[1] EXCEPT !.pc = "raised", !.at = stack[1].pc]>>
                /\ err' = w.exc
      resume(p) == resumed(p, App__init_resume(W, p.app, p.call, ret))
  IN  /\ Len(stack) >= 2 /\ Top.pc = "returned"
      /\ resume(stack[Len(stack) - 1])
      /\ UNCHANGED <<main, ret, args, runs>>

\* self.alg.init(), then the progress bar
AlgInit ==
  LET g == AlgOf(W, Top.app)
      ends(w) ==
        Finish(w, [Scoped(Top, "init") EXCEPT !.pc = App_run_next("alg_init", FALSE),
                              !.tr = Append(@, "alg.init"),
                              !.nupd = 0, !.dn = <<DoneVal(w, g)>>,
                              !.seen = <<>>, !.probes = 0])
  IN  /\ At("alg_init")
      /\ ends(PbarNew(PutAlg(W, g, Alg_init(AlgSt(W, g), Env(W))), Top.app))

\* the loop test: self.alg.done()
Done ==
  LET g == AlgOf(W, Top.app)
      ends(r) ==
        Finish(WRaise(PutAlg(W, g, r.s), r.exc),
               [Scoped(Top, "done") EXCEPT !.pc = App_run_next("test", r.val),
                           !.tr = Append(@, IF r.val THEN "done:T" ELSE "done:F"),
                           !.seen = Append(@, r.val)])
  IN  /\ At("test")
      /\ ends(Alg_done(AlgSt(W, g)))

\* a hook, or the caller from another thread of control, asks done() again
Probe ==
  LET g == AlgOf(W, Top.app)
      ends(r) ==
        Finish(WRaise(PutAlg(W, g, r.s), r.exc),
               [Scoped(Top, "done") EXCEPT !.seen = Append(@, r.val), !.probes = @ + 1])
  IN  /\ stack # <<>> /\ Top.pc \in {"test", "pre", "post", "summarize"}
      /\ Top.probes < MaxProbe
      /\ ends(Alg_done(AlgSt(W, g)))

\* self._pre_update()
PreUpdate ==
  /\ At("pre")
  /\ Finish(App__pre_update(W, Top.app),
            [Top EXCEPT !.pc = App_run_next("pre", FALSE),
                        !.tr = Append(@, "_pre_update")])

\* self.alg.update(); the operators it calls may raise (fault)
AlgUpdate ==
  LET g == AlgOf(W, Top.app)
      ends(w) ==
        Finish(w, [Scoped(Top, "update") EXCEPT !.pc = App_run_next("update", FALSE),
                              !.tr = Append(@, "alg.update"),
                              !.nupd = @ + 1,
                              !.dn = Append(@, DoneVal(w, g)),
                              !.seen = <<>>, !.probes = 0])
  IN  /\ At("update")
      /\ \E fault \in BOOLEAN :
           ends(PutAlg(W, g, Alg_update(AlgSt(W, g), fault, Env(W))))

\* self._post_update()
PostUpdate ==
  /\ At("post")
  /\ Finish(App__post_update(W, Top.app),
            [Top EXCEPT !.pc = App_run_next("post", FALSE),
                        !.tr = Append(@, "_post_update")])

\* self._summarize(), then the progress bar
Summarize ==
  /\ At("summarize")
  /\ Finish(PbarUpdate(App__summarize(W, Top.app), Top.app),
            [Top EXCEPT !.pc = App_run_next("summarize", FALSE),
                        !.tr = Append(@, "_summarize")])

\* self.alg.cleanup()
AlgCleanup ==
  /\ At("alg_cleanup")
  /\ LET g == AlgOf(W, Top.app)
     IN  Finish(PutAlg(W, g, Alg_cleanup(AlgSt(W, g))),
                [Scoped(Top, "cleanup") EXCEPT !.pc = App_run_next("alg_cleanup", FALSE),
                            !.tr = Append(@, "alg.cleanup")])

\* self._cleanup(), then the progress bar
AppCleanup ==
  /\ At("cleanup")
  /\ Finish(PbarClose(App__cleanup(W, Top.app), Top.app),
            [Top EXCEPT !.pc = App_run_next("cleanup", FALSE),
                        !.tr = Append(@, "_cleanup")])

\* return self._output()
Output ==
  LET f == [Top EXCEPT !.pc = App_run_next("output", FALSE),
                       !.tr = Append(@, "_output")]
      ends(r) ==
        IF r.exc = "none"
        THEN /\ ret' = r.val
             /\ stack' = [stack EXCEPT ![Len(stack)] = f]
             /\ UNCHANGED <<apps, algs, heap, main, err, args, runs>>
        ELSE Finish(WRaise(W, r.exc), f)
  IN  /\ At("output")
      /\ ends(App__output(W, Top.app))

\* the steps of a run() in progress
RunStep ==
  \/ AppInit \/ AppInitResume \/ AlgInit \/ Done \/ PreUpdate \/ AlgUpdate
  \/ PostUpdate \/ Summarize \/ AlgCleanup \/ AppCleanup \/ Output

Next == Construct \/ Run \/ RunStep \/ Probe

Spec == Init /\ [][Next]_vars

\* a call of run() is in progress: the step at its position can be taken
Running ==
  /\ stack # <<>>
  /\ ~(Len(stack) = 1 /\ stack[1].pc \in {"returned", "raised"})

\* run() is sequential code that nothing suspends: a call in progress takes
\* its next step.  This is WF_vars(RunStep) with ENABLED <<RunStep>>_vars
\* written as the state predicate Running it is equal to.
FairSpec == Spec /\ ([]<>(~Running) \/ []<><<RunStep>>_vars)

(***************************************************************************)
(* Properties of App.run and of the algorithms it drives                   *)
(***************************************************************************)

\* C1: every call of run() makes its calls in the order _init, alg.init, then
\* for each pass of the loop entered on a false done() the calls _pre_update,
\* alg.update, _post_update, _summarize once each, then on a true done()
\* alg.cleanup, _cleanup, _output; done() is asked once after alg.init and
\* once after each pass; a run() that returned made all of them and returned
\* what _output returned.
C1_HookOrder ==
  LET succ(e) ==
        CASE e = "_init" -> {"alg.init"}
          [] e = "alg.init" -> {"done:F", "done:T"}
          [] e = "done:F" -> {"_pre_update"}
          [] e = "_pre_update" -> {"alg.update"}
          [] e = "alg.update" -> {"_post_update"}
          [] e = "_post_update" -> {"_summarize"}
          [] e = "_summarize" -> {"done:F", "done:T"}
          [] e = "done:T" -> {"alg.cleanup"}
          [] e = "alg.cleanup" -> {"_cleanup"}
          [] e = "_cleanup" -> {"_output"}
          [] OTHER -> {}
      ordered(tr) ==
        /\ tr # <<>> => tr[1] = "_init"
        /\ \A k \in 1..(Len(tr) - 1) : tr[k + 1] \in succ(tr[k])
      complete(f) ==
        f.pc = "returned" =>
          /\ f.tr # <<>> /\ f.tr[Len(f.tr)] = "_output"
          /\ Len(f.tr) = 6 + 5 * f.nupd
      started(f) == f.pc # "init" => f.tr # <<>>
      returned(j) ==
        (j = Len(stack) /\ stack[j].pc = "returned") =>
          ret = App__output(W, stack[j].app).val
  IN  \A j \in 1..Len(stack) :
        ordered(stack[j].tr) /\ complete(stack[j]) /\ started(stack[j]) /\ returned(j)

\* a run() that went twice through the loop has returned
C1_Witness ==
  /\ Len(stack) = 1 /\ stack[1].pc = "returned"
  /\ stack[1].nupd = 2 /\ Len(stack[1].tr) = 16

\* C2: alg.update is never called after done() returned true; when the loop
\* is left, the number of updates made is the smallest k for which done() is
\* true after k updates; the algorithms whose done() only counts iterations
\* (PowerMethod, ProximalPointMethod, PrimalDualHybridGradient, AltMin) have
\* made exactly max_iter updates.
C2_UpdatesUntilDone ==
  LET counting == {"PowerMethod", "ProximalPointMethod",
                   "PrimalDualHybridGradient", "AltMin"}
      past == {"alg_cleanup", "cleanup", "output", "returned"}
      entered(f) ==
        f.pc \in {"pre", "update"} =>
          /\ f.seen # <<>>
          /\ \A k \in 1..Len(f.seen) : ~f.seen[k]
          /\ ~f.dn[Len(f.dn)]
      left(f) ==
        f.pc \in past =>
          /\ Len(f.dn) = f.nupd + 1
          /\ f.dn[f.nupd + 1]
          /\ \A k \in 1..f.nupd : ~f.dn[k]
      exact(f, g) ==
        (f.pc \in past /\ algs[g].cls \in counting) => f.nupd = algs[g].d.max_iter
  IN  \A j \in 1..Len(stack) :
        entered(stack[j]) /\ left(stack[j]) /\ exact(stack[j], AlgOf(W, stack[j].app))

\* a run() left the loop before max_iter updates, done() having turned true
C2_Witness ==
  /\ Len(stack) = 1 /\ stack[1].pc = "returned"
  /\ stack[1].nupd = 1
  /\ algs[AlgOf(W, stack[1].app)].d.max_iter = 2

\* C3: once alg.init has returned, the algorithm's iter is the number of
\* calls of alg.update that returned since, the updates of ConjugateGradient
\* that return early on zero curvature included.
C3_IterCountsUpdates ==
  LET counted == {"test", "pre", "update", "post", "summarize",
                  "alg_cleanup", "cleanup", "output", "returned"}
      counts(f, g) ==
        (f.pc \in counted \/ (f.pc = "raised" /\ f.at \in counted)) =>
          /\ "iter" \in DOMAIN algs[g].d
          /\ algs[g].d.iter = f.nupd
  IN  \A j \in 1..Len(stack) : counts(stack[j], AlgOf(W, stack[j].app))

\* ConjugateGradient returned early from an update, which was counted
C3_Witness ==
  /\ Len(stack) = 1 /\ stack[1].pc = "post" /\ stack[1].nupd = 1
  /\ algs[AlgOf(W, stack[1].app)].cls = "ConjugateGradient"
  /\ algs[AlgOf(W, stack[1].app)].d.zero_gradient
  /\ algs[AlgOf(W, stack[1].app)].d.iter = 1

\* C4: a call of done() changes no field of the algorithm and no array, and
\* the calls of done() made since the last update (or since alg.init) all
\* returned the same value.
C4_DonePure ==
  [][ (/\ stack # <<>> /\ Len(stack') = Len(stack)
       /\ Top.pc \in {"test", "pre", "post", "summarize"}
       /\ Len(Top'.seen) = Len(Top.seen) + 1)
      => /\ algs' = algs /\ heap' = heap /\ apps' = apps
         /\ \A k \in 1..Len(Top'.seen) : Top'.seen[k] = Top'.seen[1] ]_vars

\* done() was asked twice after the same update and answered twice
C4_Witness ==
  /\ stack # <<>> /\ Top.nupd = 1 /\ Len(Top.seen) = 2
  /\ Top.pc \in {"pre", "alg_cleanup"}

\* C5: a run() makes at most max_iter updates, and a run() in progress
\* ends: it returns or its exception reaches the caller.
C5_RunTerminates ==
  /\ [](\A j \in 1..Len(stack) :
          (stack[j].pc \notin {"init", "init_wait", "alg_init", "raised"}) =>
             stack[j].nupd <= algs[AlgOf(W, stack[j].app)].d.max_iter)
  /\ ((stack # <<>> /\ stack[1].pc \notin {"returned", "raised"})
        ~> (stack # <<>> /\ stack[1].pc \in {"returned", "raised"}))

\* a run() returned after max_iter updates, each made once
C5_Witness ==
  /\ Len(stack) = 1 /\ stack[1].pc = "returned"
  /\ stack[1].nupd = MaxIter
  /\ algs[AlgOf(W, stack[1].app)].d.max_iter = MaxIter
  /\ algs[AlgOf(W, stack[1].app)].d.iter = MaxIter

\* C6: when alg.update, _pre_update, _post_update or _summarize raises,
\* alg.cleanup has been called by the time the exception reaches the caller.
C6_CleanupOnFailure ==
  (/\ Len(stack) = 1 /\ stack[1].pc = "raised"
   /\ stack[1].at \in {"pre", "update", "post", "summarize"})
  => \E k \in 1..Len(stack[1].tr) : stack[1].tr[k] = "alg.cleanup"

C8_RejectedAtConstruction ==
  LET names == {"ConjugateGradient", "GradientMethod", "PrimalDualHybridGradient"}
      selected(sc) ==
        IF sc.alg # "None" THEN sc.alg
        ELSE IF ~sc.proxg THEN "ConjugateGradient"
        ELSE IF ~sc.G THEN "GradientMethod"
        ELSE "PrimalDualHybridGradient"
      message(n) ==
        CASE n = "ConjugateGradient" ->
               "ValueError: ConjugateGradient cannot have proxg specified."
          [] n = "PrimalDualHybridGradient" ->
               "ValueError: PrimalDualHybridGradient cannot have R specified."
          [] OTHER -> "ValueError: Invalid alg_name"
      invalid(sc, n) ==
        \/ n = "ConjugateGradient" /\ sc.proxg
        \/ n = "PrimalDualHybridGradient" /\ sc.R
        \/ n \notin names
      rejected(n) ==
        /\ err = message(n)
        /\ main = 0 /\ stack = <<>> /\ algs = <<>>
        /\ \A i \in 1..Len(apps) : "alg" \notin DOMAIN apps[i].d
  IN  (args.cls = "LinearLeastSquares" /\ invalid(args, selected(args)))
        => rejected(selected(args))

\* the constructor refused ConjugateGradient with proxg
C8_Witness ==
  /\ args.cls = "LinearLeastSquares" /\ args.alg = "ConjugateGradient" /\ args.proxg
  /\ err = "ValueError: ConjugateGradient cannot have proxg specified."
  /\ Len(apps) = 1 /\ "alg" \notin DOMAIN apps[1].d

\* C9: when save_objective_values is set with proxg given and g absent, the
\* ValueError reaches the caller before any alg.update has been called.
C9_ReportedAtAssembly ==
  (err = "ValueError: Cannot compute objective when proxg is specified, but g is not.")
  => \A j \in 1..Len(stack) : \A k \in 1..Len(stack[j].tr) :
       stack[j].tr[k] # "alg.update"

\* C10: no first run() of a harness, whatever max_iter >= 0, reads an
\* attribute that has not been assigned.
C10_NoReadBeforeAssign ==
  (runs = 1) => err # "AttributeError"

\* C11: the first run() of LinearLeastSquares with proxg absent, lamda = 0,
\* mu = 0, no weights, identity A, x = 0 and max_iter >= 1 returns x equal
\* to the y it was given after at most one update; the residual it stops on
\* is exactly 0 when max_iter >= 2 or y = 0, and is the norm of y, the run
\* stopping on the iteration bound, when max_iter = 1 and y is not 0.
C11_RoundTrip ==
  LET trip ==
        /\ args.cls = "LinearLeastSquares" /\ args.alg = "None" /\ ~args.proxg
        /\ args.lamda = 0 /\ ~args.weights /\ args.max_iter >= 1
        /\ runs = 1 /\ Len(stack) = 1 /\ stack[1].pc = "returned"
      y == Vec(Ys[args.v])
      stale == args.max_iter = 1 /\ y # VZero(Len(y))
      result(d) ==
        /\ ret = apps[main].d.x
        /\ heap[ret.id] = y
        /\ stack[1].nupd <= 1
        /\ IF stale THEN stack[1].nupd = 1 /\ d.resid = Norm(y) /\ ~IsZero(d.resid)
           ELSE IsZero(d.resid)
  IN  trip => result(algs[AlgOf(W, main)].d)

\* a round trip of a two-entry y that stopped on a zero residual
C11_Witness ==
  /\ args.cls = "LinearLeastSquares" /\ args.alg = "None" /\ ~args.proxg
  /\ args.lamda = 0 /\ ~args.weights /\ args.max_iter = 2 /\ Ys[args.v] = <<1, 2>>
  /\ runs = 1 /\ Len(stack) = 1 /\ stack[1].pc = "returned"
  /\ stack[1].nupd = 1 /\ heap[1] = <<R(1), R(2)>>

\* C11 as stated: the round trip returns x equal to y after at most one
\* update, the residual having become exactly 0.
C11_Original ==
  (/\ args.cls = "LinearLeastSquares" /\ args.alg = "None" /\ ~args.proxg
   /\ args.lamda = 0 /\ ~args.weights /\ args.max_iter >= 1
   /\ runs = 1 /\ Len(stack) = 1 /\ stack[1].pc = "returned")
  => /\ heap[apps[main].d.x.id] = Vec(Ys[args.v])
     /\ stack[1].nupd <= 1
     /\ IsZero(algs[AlgOf(W, main)].d.resid)


\* C12: ConjugateGradient on a symmetric positive-definite system A x = b of
\* dimension 1 or 2, in exact arithmetic, with max_iter >= dim(x): the first
\* run() makes at most dim(x) updates and returns with A x = b; the resid
\* it stops on is exactly 0 when max_iter > dim(x), or earlier than the last
\* permitted update; when the run uses all of its max_iter = dim(x) updates,
\* the last one leaves resid at the value it had before, which is not 0.
C12_ExactSolve ==
  LET solve ==
        /\ args.cls = "App" /\ args.alg = "ConjugateGradient" /\ args.v > 4
        /\ runs = 1 /\ Len(stack) = 1 /\ err = "none"
      sys == CGSystem(args.v)
      dim == Len(sys.b)
      solved(f, d) ==
        /\ f.nupd <= dim
        /\ f.pc = "returned" =>
             /\ MatVec(sys.A, heap[d.x.id]) = sys.b
             /\ IsZero(d.resid) <=> f.nupd < args.max_iter
  IN  solve => solved(stack[1], algs[AlgOf(W, main)].d)

\* the 2 x 2 system [[2, 1], [1, 3]] x = (-1, 2) solved from x = (1, 0) in
\* two updates of three permitted, the residual exactly 0
C12_Witness ==
  /\ args.cls = "App" /\ args.alg = "ConjugateGradient" /\ args.v = 11
  /\ args.max_iter = 3 /\ runs = 1 /\ Len(stack) = 1 /\ stack[1].pc = "returned"
  /\ stack[1].nupd = 2
  /\ heap[1] = <<R(-1), R(1)>>
  /\ IsZero(algs[AlgOf(W, main)].d.resid)

\* C12 as stated: resid is exactly 0 within dim(x) updates for every
\* max_iter >= dim(x)
C12_Original ==
  LET solve ==
        /\ args.cls = "App" /\ args.alg = "ConjugateGradient" /\ args.v > 4
        /\ runs = 1 /\ Len(stack) = 1 /\ stack[1].pc = "returned"
      reached(f, d) == f.nupd <= Len(CGSystem(args.v).b) /\ IsZero(d.resid)
  IN  solve => reached(stack[1], algs[AlgOf(W, main)].d)


\* C13: an update of PrimalDualHybridGradient with gamma_primal > 0,
\* gamma_dual = 0 and positive tau and sigma strictly decreases tau,
\* strictly increases sigma and keeps tau * sigma; with gamma_primal = 0 and
\* gamma_dual > 0 it strictly decreases sigma, strictly increases tau and
\* keeps tau * sigma.  The comparison is made on the updates that take
\* rational step sizes to rational step sizes, which the first update from
\* each of the step sizes PDHGSteps is.
C13_Rebalance ==
  [][
  LET g == AlgOf(W, Top.app)
      updated ==
        /\ stack # <<>> /\ Top.pc = "update" /\ err' = "none"
        /\ Len(stack') = Len(stack) /\ Top'.nupd = Top.nupd + 1
        /\ algs[g].cls = "PrimalDualHybridGradient"
      first == args.cls = "App" /\ args.v > 4 /\ runs = 1 /\ Top.nupd = 0
      primal(d) == IsPos(d.gamma_primal) /\ IsZero(d.gamma_dual)
      dual(d) == IsZero(d.gamma_primal) /\ IsPos(d.gamma_dual)
      rational(d, e) ==
        /\ IsRat(d.tau) /\ IsPos(d.tau) /\ IsRat(d.sigma) /\ IsPos(d.sigma)
        /\ IsRat(e.tau) /\ IsRat(e.sigma)
      rebalanced(d, e) ==
        /\ first => rational(d, e) /\ (primal(d) \/ dual(d))
        /\ (rational(d, e) /\ primal(d)) =>
             /\ Lt(e.tau, d.tau) /\ Lt(d.sigma, e.sigma)
             /\ Mul(e.tau, e.sigma) = Mul(d.tau, d.sigma)
        /\ (rational(d, e) /\ dual(d)) =>
             /\ Lt(e.sigma, d.sigma) /\ Lt(d.tau, e.tau)
             /\ Mul(e.tau, e.sigma) = Mul(d.tau, d.sigma)
  IN  updated => rebalanced(algs[g].d, algs'[g].d) ]_vars

\* an update took tau = 3/2, sigma = 2/3 to tau = 3/4, sigma = 4/3 (primal),
\* or tau = 2/3, sigma = 3/2 to tau = 4/3, sigma = 3/4 (dual)
C13_Witness ==
  /\ args.cls = "App" /\ args.alg = "PrimalDualHybridGradient" /\ args.v \in {6, 11}
  /\ runs = 1 /\ Len(stack) = 1 /\ stack[1].nupd = 1 /\ stack[1].pc = "post"
  /\ algs[AlgOf(W, main)].d.tau = IF args.v = 6 THEN Rat(3, 4) ELSE Rat(4, 3)
  /\ algs[AlgOf(W, main)].d.sigma = IF args.v = 6 THEN Rat(4, 3) ELSE Rat(3, 4)


\* C14: on the GradientMethod path of LinearLeastSquares, when the caller
\* supplied alpha the algorithm's alpha is that value and no MaxEig is ever
\* built or run; when the caller did not, each run() builds one MaxEig and
\* runs it inside _init, before alg.init and before any update, and from the
\* end of _init to the end of the run the algorithm's alpha is 1 / (the
\* value that MaxEig run returned).
C14_StepSize ==
  LET gm == /\ args.cls = "LinearLeastSquares" /\ main # 0
            /\ algs[AlgOf(W, main)].cls = "GradientMethod"
      after == {"alg_init", "test", "pre", "update", "post", "summarize",
                "alg_cleanup", "cleanup", "output"}
      supplied(d) ==
        /\ d.alpha = apps[main].d.alpha
        /\ Len(apps) = 1 /\ Len(stack) <= 1
      estimated(d) ==
        /\ Len(stack) = 2 =>
             /\ stack[1].pc = "init_wait" /\ stack[1].tr = <<"_init">>
             /\ apps[stack[2].app].cls = "MaxEig" /\ stack[2].app = 1 + runs
        /\ (Len(stack) = 1 /\ stack[1].pc \in after) =>
             /\ Len(apps) = 1 + runs
             /\ IsRat(ret) /\ d.alpha = Div(R(1), ret)
      used(d) == IF IsNone(apps[main].d.alpha) THEN estimated(d) ELSE supplied(d)
  IN  gm => used(algs[AlgOf(W, main)].d)

\* the estimator returned 2 and the first update is made with alpha = 1/2
C14_Witness ==
  /\ args.cls = "LinearLeastSquares" /\ main # 0 /\ args.step = "none"
  /\ algs[AlgOf(W, main)].cls = "GradientMethod"
  /\ IsNone(apps[main].d.alpha)
  /\ runs = 1 /\ Len(stack) = 1 /\ stack[1].pc = "post" /\ stack[1].nupd = 1
  /\ ret = R(2) /\ algs[AlgOf(W, main)].d.alpha = Rat(1, 2)


\* C15: in L2ConstrainedMinimization a step size the caller supplied (here
\* 1/2) is the one the algorithm holds at every point of every run, and the
\* defaults tau = 1, sigma = 1 / (estimate) replace a step size only when
\* the caller supplied neither.
C15_SuppliedStepKept ==
  LET l2cm == args.cls = "L2ConstrainedMinimization" /\ main # 0
      kept(d) ==
        /\ args.step \in {"both", "tau"} => d.tau = Rat(1, 2)
        /\ args.step \in {"both", "sigma"} => d.sigma = Rat(1, 2)
  IN  l2cm => kept(algs[AlgOf(W, main)].d)


\* C16: the hook of every call of init, update, done and cleanup a run()
\* makes on its algorithm runs inside the algorithm's device context.
C16_DeviceScope ==
  \A k \in 1..Len(stack) : stack[k].unscoped = {}


\* C17: an update of ConjugateGradient that finds p.Ap = 0 raises nothing,
\* changes no array (x, r, p) and neither rzold nor resid, and sets
\* zero_gradient; while zero_gradient is set done() is true, the run is at no
\* position from which it would update again, no exception has been raised,
\* and the run goes on to return, the last calls it made being alg.cleanup,
\* _cleanup and _output.
C17_ZeroCurvature ==
  /\ [][ (/\ stack # <<>> /\ Top.pc = "update"
          /\ algs[AlgOf(W, Top.app)].cls = "ConjugateGradient"
          /\ ~algs[AlgOf(W, Top.app)].d.zero_gradient
          /\ algs'[AlgOf(W, Top.app)].d.zero_gradient)
         => /\ err' = "none" /\ heap' = heap
            /\ Len(stack') = Len(stack) /\ Top'.pc = "post"
            /\ \A a \in {"x", "r", "p", "rzold", "resid"} :
                 algs'[AlgOf(W, Top.app)].d[a] = algs[AlgOf(W, Top.app)].d[a] ]_vars
  /\ [](\A k \in 1..Len(stack) :
          (/\ algs[AlgOf(W, stack[k].app)].cls = "ConjugateGradient"
           /\ stack[k].nupd >= 1
           /\ Has(AlgSt(W, AlgOf(W, stack[k].app)), "zero_gradient")
           /\ algs[AlgOf(W, stack[k].app)].d.zero_gradient)
          => /\ DoneVal(W, AlgOf(W, stack[k].app))
             /\ stack[k].pc \notin {"pre", "update", "raised"}
             /\ err = "none"
             /\ stack[k].tr[Len(stack[k].tr)] # "done:F")
  /\ ((IF Len(stack) = 1 /\ algs[AlgOf(W, stack[1].app)].cls = "ConjugateGradient"
       THEN stack[1].pc = "post" /\ algs[AlgOf(W, stack[1].app)].d.zero_gradient
       ELSE FALSE)
      ~> (IF Len(stack) = 1 /\ algs[AlgOf(W, stack[1].app)].cls = "ConjugateGradient"
          THEN /\ stack[1].pc = "returned"
               /\ algs[AlgOf(W, stack[1].app)].d.zero_gradient
               /\ SubSeq(stack[1].tr, Len(stack[1].tr) - 2, Len(stack[1].tr))
                    = <<"alg.cleanup", "_cleanup", "_output">>
          ELSE FALSE))

\* the run in which the first update of 0 x = 1 found zero curvature has
\* returned after that one update, with one more allowed
C17_Witness ==
  /\ args.cls = "App" /\ args.alg = "ConjugateGradient" /\ args.v = 2
  /\ args.max_iter = 2 /\ runs = 1
  /\ Len(stack) = 1 /\ stack[1].pc = "returned" /\ stack[1].nupd = 1
  /\ algs[AlgOf(W, main)].d.zero_gradient
  /\ heap[1] = V1(0) /\ ~IsZero(algs[AlgOf(W, main)].d.resid)


\* the classic conjugate gradient recurrence for A x = b from x0, which
\* updates the residual and the direction on every step: <<x, r, p>> after
\* k steps
RECURSIVE ClassicCG(_, _, _, _)
ClassicCG(A, b, x0, k) ==
  LET start(r) == [x |-> x0, r |-> r, p |-> r]
      dir(c, x, r, beta) == [x |-> x, r |-> r, p |-> VAdd(r, VScale(beta, c.p))]
      res(c, x, r) == dir(c, x, r, Div(Dot(r, r), Dot(c.r, c.r)))
      adv(c, Ap, alpha) ==
        res(c, VAdd(c.x, VScale(alpha, c.p)), VSub(c.r, VScale(alpha, Ap)))
      step(c, Ap) == adv(c, Ap, Div(Dot(c.r, c.r), Dot(c.p, Ap)))
      next(c) == step(c, MatVec(A, c.p))
  IN  IF k = 0 THEN start(VSub(b, MatVec(A, x0)))
      ELSE next(ClassicCG(A, b, x0, k - 1))

\* C18: an update of ConjugateGradient (no preconditioner, non-zero
\* curvature) advances x by alpha * p with alpha = rzold / p.Ap; when it is
\* made with iter = max_iter - 1 it leaves r, p and rzold unchanged, and
\* when it is made earlier r, p and rzold follow the classic recurrence;
\* and after each update of the first run on the systems CGSystems x is the
\* iterate of the classic recurrence that never skips.
C18_FinalStepSkips ==
  /\ [][ LET g == AlgOf(W, Top.app)
             made ==
               /\ stack # <<>> /\ Top.pc = "update" /\ err' = "none"
               /\ Len(stack') = Len(stack) /\ Top'.nupd = Top.nupd + 1
               /\ algs[g].cls = "ConjugateGradient" /\ IsNone(algs[g].d.P)
               /\ ~algs'[g].d.zero_gradient
             dir(r, p, rznew, rzold) == VAdd(r, VScale(Div(rznew, rzold), p))
             classic(d, e, r, p, r1) ==
               /\ heap'[e.r.id] = r1
               /\ e.rzold = Dot(r1, r1)
               /\ heap'[e.p.id] = dir(r1, p, Dot(r1, r1), d.rzold)
             skipped(d, e, r, p) ==
               /\ heap'[e.r.id] = r /\ heap'[e.p.id] = p /\ e.rzold = d.rzold
             stepped(d, e, x, r, p, Ap, alpha) ==
               /\ e.alpha = alpha
               /\ heap'[e.x.id] = VAdd(x, VScale(alpha, p))
               /\ e.x = d.x /\ e.r = d.r /\ e.p = d.p
               /\ IF d.iter = d.max_iter - 1
                  THEN skipped(d, e, r, p)
                  ELSE classic(d, e, r, p, VSub(r, VScale(alpha, Ap)))
             update(d, e, p, Ap) ==
               stepped(d, e, heap[d.x.id], heap[d.r.id], p, Ap, Div(d.rzold, Dot(p, Ap)))
             follows(d, e) ==
               update(d, e, heap[d.p.id], LinopApply(d.A, heap[d.p.id]))
         IN  made => follows(algs[g].d, algs'[g].d) ]_vars
  /\ [](IF args.cls = "App" /\ args.alg = "ConjugateGradient" /\ args.v > 4
           /\ runs = 1 /\ Len(stack) = 1 /\ err = "none"
        THEN stack[1].pc \in {"post", "summarize", "test", "alg_cleanup", "cleanup",
                              "output", "returned"}
             => heap[algs[AlgOf(W, stack[1].app)].d.x.id]
                  = ClassicCG(CGSystem(args.v).A, CGSystem(args.v).b,
                              CGSystem(args.v).x, stack[1].nupd).x
        ELSE TRUE)

\* the final permitted update of a 2 x 2 system was made: two updates with
\* max_iter = 2, the residual still the one the first update left
C18_Witness ==
  /\ args.cls = "App" /\ args.alg = "ConjugateGradient" /\ args.v = 9
  /\ args.max_iter = 2 /\ runs = 1 /\ Len(stack) = 1
  /\ stack[1].pc = "post" /\ stack[1].nupd = 2
  /\ heap[1] = <<R(1), R(1)>>
  /\ ~IsZero(algs[AlgOf(W, main)].d.resid)


\* C19: an update of PrimalDualHybridGradient changes tau or sigma only
\* when exactly one of gamma_primal and gamma_dual is positive; when both
\* are zero or both are positive it leaves tau and sigma unchanged and sets
\* x_ext to x + theta * (x - x_old) with the theta the caller configured.
C19_RebalanceOnlyOne ==
  [][ LET g == AlgOf(W, Top.app)
          updated ==
            /\ stack # <<>> /\ Top.pc = "update" /\ err' = "none"
            /\ Len(stack') = Len(stack) /\ Top'.nupd = Top.nupd + 1
            /\ algs[g].cls = "PrimalDualHybridGradient"
          one(d) == IsPos(d.gamma_primal) # IsPos(d.gamma_dual)
          same(d) ==
            \/ IsZero(d.gamma_primal) /\ IsZero(d.gamma_dual)
            \/ IsPos(d.gamma_primal) /\ IsPos(d.gamma_dual)
          ext(e, x, x_old) == heap'[e.x_ext.id] = VAdd(x, VScale(e.theta, VSub(x, x_old)))
          constant(d, e) ==
            /\ (e.tau # d.tau \/ e.sigma # d.sigma) => one(d)
            /\ e.theta = d.theta
            /\ same(d) =>
                 /\ e.tau = d.tau /\ e.sigma = d.sigma
                 /\ ext(e, heap'[e.x.id], heap'[e.x_old.id])
      IN  updated => constant(algs[g].d, algs'[g].d) ]_vars

\* an update with gamma_primal = gamma_dual = 1 and theta = 1/2 moved x and
\* left tau = sigma = 1
C19_Witness ==
  /\ args.cls = "App" /\ args.alg = "PrimalDualHybridGradient" /\ args.v = 4
  /\ runs = 1 /\ Len(stack) = 1 /\ stack[1].pc = "post" /\ stack[1].nupd = 1
  /\ algs[AlgOf(W, main)].d.tau = R(1) /\ algs[AlgOf(W, main)].d.sigma = R(1)
  /\ algs[AlgOf(W, main)].d.theta = Rat(1, 2)
  /\ heap[algs[AlgOf(W, main)].d.x.id] # heap[algs[AlgOf(W, main)].d.x_old.id]
  /\ heap[algs[AlgOf(W, main)].d.x_ext.id] # heap[algs[AlgOf(W, main)].d.x.id]


\* C20: an update of GradientMethod (alpha > 0) that starts at a fixed point
\* (gradf(x) = 0 without proxg and acceleration; otherwise z = x when
\* accelerated and proxg(alpha, x - alpha * gradf(x)) = x, proxg the
\* identity when absent; x an array of rationals) leaves x unchanged and
\* sets resid to exactly 0, and done() is then true whatever iter is; and
\* right after init resid is infinite and done() is true only when
\* max_iter <= 0.
C20_FixedPoint ==
  /\ [][ LET g == AlgOf(W, Top.app)
             updated ==
               /\ stack # <<>> /\ Top.pc = "update" /\ err' = "none"
               /\ Len(stack') = Len(stack) /\ Top'.nupd = Top.nupd + 1
               /\ algs[g].cls = "GradientMethod" /\ IsPos(algs[g].d.alpha)
             prox(d, v) == IF IsNone(d.proxg) THEN v ELSE ProxApply(d.proxg, d.alpha, v)
             stepped(d, x, gradf_x) == prox(d, VAdd(x, VScale(Neg(d.alpha), gradf_x)))
             fixed(d, x, gradf_x) ==
               IF ~d.accelerate /\ IsNone(d.proxg)
               THEN gradf_x = VZero(Len(x))
               ELSE /\ d.accelerate => heap[d.z.id] = x
                    /\ stepped(d, x, gradf_x) = x
             known(v) == \A j \in 1..Len(v) : IsRat(v[j])
             start(d, x) == known(x) /\ fixed(d, x, CallFn(d.gradf, x, heap, Env(W)))
             stays(d, e) ==
               /\ heap'[e.x.id] = heap[d.x.id]
               /\ IsZero(e.resid)
               /\ Top'.dn[Len(Top'.dn)]
         IN  (updated /\ start(algs[g].d, heap[algs[g].d.x.id]))
               => stays(algs[g].d, algs'[g].d) ]_vars
  /\ [](\A k \in 1..Len(stack) :
          (/\ algs[AlgOf(W, stack[k].app)].cls = "GradientMethod"
           /\ stack[k].pc = "test" /\ stack[k].nupd = 0
           /\ stack[k].tr[Len(stack[k].tr)] = "alg.init")
          => /\ algs[AlgOf(W, stack[k].app)].d.resid = Inf
             /\ stack[k].dn[1] <=> algs[AlgOf(W, stack[k].app)].d.max_iter <= 0)

\* the proximal gradient method started at its fixed point 1/2: one update
\* of two allowed, x still 1/2, resid 0 and done() true
C20_Witness ==
  /\ args.cls = "App" /\ args.alg = "GradientMethod" /\ args.v = 6
  /\ args.max_iter = 2 /\ runs = 1 /\ Len(stack) = 1
  /\ stack[1].pc = "alg_cleanup" /\ stack[1].nupd = 1
  /\ heap[1] = <<Rat(1, 2)>>
  /\ IsZero(algs[AlgOf(W, main)].d.resid)
  /\ algs[AlgOf(W, main)].d.iter < algs[AlgOf(W, main)].d.max_iter


\* C21: _init of a LinearLeastSquares whose algorithm is
\* PrimalDualHybridGradient: with tau and sigma both supplied it runs no
\* MaxEig and changes neither step size; with only sigma supplied it runs
\* one MaxEig for tau and keeps sigma; with only tau supplied it runs one
\* for sigma and keeps tau; with neither it sets sigma to 1 and runs one
\* for tau.  When the MaxEig run returns, the step size it was for becomes
\* 1 / (estimate + lamda + mu) (tau) or 1 / estimate (sigma), the other is
\* kept, and _init ends.  At every update both step sizes are set, and a
\* run() has built at most one MaxEig.
C21_StepSizesByCases ==
  /\ [][ LET i == Top.app
             g == AlgOf(W, Top.app)
             pdhg ==
               /\ stack # <<>> /\ Top.pc = "init" /\ err' = "none"
               /\ apps[i].cls = "LinearLeastSquares"
               /\ algs[g].cls = "PrimalDualHybridGradient"
             none(d, e) ==
               /\ Len(stack') = Len(stack) /\ Top'.pc = "alg_init"
               /\ Len(apps') = Len(apps)
               /\ e.tau = d.tau /\ e.sigma = d.sigma
             derive(call) ==
               /\ Len(stack') = Len(stack) + 1 /\ Len(apps') = Len(apps) + 1
               /\ stack'[Len(stack)].pc = "init_wait"
               /\ stack'[Len(stack)].call = call
               /\ apps'[Top'.app].cls = "MaxEig"
             cases(a, d, e) ==
               IF ~IsNone(a.tau) /\ ~IsNone(a.sigma) THEN none(d, e)
               ELSE IF IsNone(a.tau) /\ ~IsNone(a.sigma)
               THEN derive("tau") /\ e.sigma = d.sigma
               ELSE IF ~IsNone(a.tau) /\ IsNone(a.sigma)
               THEN derive("sigma") /\ e.tau = d.tau
               ELSE derive("tau") /\ e.sigma = R(1)
         IN  pdhg => cases(apps[i].d, algs[g].d, algs'[g].d) ]_vars
  /\ [][ LET p == stack[Len(stack) - 1]
             g == AlgOf(W, stack[Len(stack) - 1].app)
             resumed ==
               /\ Len(stack) >= 2 /\ Top.pc = "returned" /\ err' = "none"
               /\ apps[p.app].cls = "LinearLeastSquares"
               /\ algs[g].cls = "PrimalDualHybridGradient"
             derived(a, d, e) ==
               /\ Len(stack') = Len(stack) - 1 /\ Top'.pc = "alg_init"
               /\ IF p.call = "tau"
                  THEN /\ e.tau = Div(R(1), Add(Add(ret, a.lamda), a.mu))
                       /\ e.sigma = d.sigma
                  ELSE /\ p.call = "sigma"
                       /\ e.sigma = Div(R(1), ret)
                       /\ e.tau = d.tau
         IN  resumed => derived(apps[p.app].d, algs[g].d, algs'[g].d) ]_vars
  /\ [](\A k \in 1..Len(stack) :
          (/\ apps[stack[k].app].cls = "LinearLeastSquares"
           /\ algs[AlgOf(W, stack[k].app)].cls = "PrimalDualHybridGradient")
          => /\ stack[k].pc \in {"pre", "update"} =>
                  /\ ~IsNone(algs[AlgOf(W, stack[k].app)].d.tau)
                  /\ ~IsNone(algs[AlgOf(W, stack[k].app)].d.sigma)
             /\ Len(apps) <= 1 + runs)

\* only sigma was supplied: the first update is about to be made with the
\* sigma supplied and the tau derived from an estimate of 2
C21_Witness ==
  /\ args.cls = "LinearLeastSquares" /\ args.step = "sigma" /\ main # 0
  /\ algs[AlgOf(W, main)].cls = "PrimalDualHybridGradient"
  /\ runs = 1 /\ Len(stack) = 1 /\ stack[1].pc = "update" /\ stack[1].nupd = 0
  /\ Len(apps) = 2
  /\ algs[AlgOf(W, main)].d.sigma = R(1)
  /\ algs[AlgOf(W, main)].d.tau = Rat(1, 2)


\* C22: no update of NewtonsMethod raises (unless one of the operators it
\* was given does): a run() on a NewtonsMethod with max_iter = n raises no
\* exception, makes at most n updates and, once returned, has made exactly n.
C22_NewtonUpdates ==
  (/\ args.cls = "App" /\ args.alg = "NewtonsMethod" /\ main # 0 /\ stack # <<>>
   /\ err # "OperatorError")
  => /\ err = "none"
     /\ stack[1].pc # "raised"
     /\ stack[1].nupd <= args.max_iter
     /\ stack[1].pc = "returned" => stack[1].nupd = args.max_iter


\* C23: when a run() has returned, the algorithm no longer has the fields
\* its init created for the run (GradientMethod z, t, x_old;
\* ConjugateGradient r, p, rzold, and b when LinearLeastSquares built it;
\* PrimalDualHybridGradient x_ext, u_old, x_old); in a second or later
\* run() on the same harness the algorithm has iter = 0 and all of these
\* fields again right after alg.init, and no AttributeError is raised.
C23_ReuseAcrossRuns ==
  LET scratch(cls, d, lls) ==
        CASE cls = "GradientMethod" ->
               (IF d.accelerate THEN {"z", "t"} ELSE {})
                 \cup (IF d.accelerate \/ ~IsNone(d.proxg) THEN {"x_old"} ELSE {})
          [] cls = "ConjugateGradient" ->
               {"r", "p", "rzold"} \cup (IF lls THEN {"b"} ELSE {})
          [] cls = "PrimalDualHybridGradient" -> {"x_ext", "u_old", "x_old"}
          [] OTHER -> {}
      all == {"z", "t", "r", "p", "rzold", "x_ext", "u_old", "x_old"}
      removed(cls, d, lls) ==
        /\ scratch(cls, d, lls) \cap DOMAIN d = {}
        /\ cls \in {"GradientMethod", "ConjugateGradient", "PrimalDualHybridGradient"}
             => all \cap DOMAIN d = {}
      created(cls, d, lls) ==
        /\ scratch(cls, d, lls) \subseteq DOMAIN d
        /\ d.iter = 0
      of(f, op(_, _, _)) ==
        op(algs[AlgOf(W, f.app)].cls, algs[AlgOf(W, f.app)].d,
           apps[f.app].cls = "LinearLeastSquares")
  IN  /\ (Len(stack) = 1 /\ stack[1].pc = "returned") => of(stack[1], removed)
      /\ runs >= 2 =>
           /\ err # "AttributeError"
           /\ \A k \in 1..Len(stack) :
                (/\ stack[k].pc = "test" /\ stack[k].nupd = 0
                 /\ stack[k].tr[Len(stack[k].tr)] = "alg.init")
                => of(stack[k], created)

\* the second run() of a LinearLeastSquares on ConjugateGradient, whose
\* first run made an update and returned, has made alg.init and an update
C23_Witness ==
  /\ runs = 2 /\ Len(stack) = 1 /\ main # 0 /\ err = "none"
  /\ apps[main].cls = "LinearLeastSquares"
  /\ algs[AlgOf(W, main)].cls = "ConjugateGradient"
  /\ args.weights /\ args.max_iter = 1
  /\ stack[1].pc = "post" /\ stack[1].nupd = 1
  /\ heap[1] = <<Rat(289, 297), Rat(578, 297)>>
  /\ {"r", "p", "rzold", "b"} \subseteq DOMAIN algs[AlgOf(W, main)].d


=============================================================================
